---- MODULE Spec2Model ----
(***************************************************************************)
(* Pocket Scout v7: regime classifier (HMMEngine), predictor (AIEngine),   *)
(* policy (RLEngine) and the content script that fuses them into signals   *)
(* and resolves the signals by deferred callbacks.                         *)
(*                                                                         *)
(* Numbers.  A JavaScript number is a record [k, n, d]: k = "num" with the *)
(* exact rational n/d (d > 0, lowest terms), k = "NaN", or k = "undef" for *)
(* a missing property.  Regime indices are 1..4 where the source has 0..3. *)
(* Q-values are integers in units of 1/QSCALE.                             *)
(***************************************************************************)
EXTENDS Integers, Sequences, FiniteSets, TLC

----------------------------------------------------------------------------
(* Exact rational arithmetic for JavaScript numbers                         *)

RECURSIVE GCD(_, _)
GCD(a, b) == IF b = 0 THEN a ELSE GCD(b, a % b)

Abs(x) == IF x < 0 THEN -x ELSE x

LCM(a, b) == (a \div GCD(a, b)) * b

Num(n, d) ==
  LET g == GCD(Abs(n), Abs(d))
      s == IF d < 0 THEN -1 ELSE 1
  IN  [k |-> "num", n |-> (s * n) \div g, d |-> (s * d) \div g]

NaN == [k |-> "NaN", n |-> 0, d |-> 1]

Undefined == [k |-> "undef", n |-> 0, d |-> 1]

\* JavaScript truthiness of a number-valued property: !x is true for 0, NaN
\* and undefined, false for every other number (negative ones included).
Truthy(x) == x.k = "num" /\ x.n # 0

\* Sums and comparisons go through the least common denominator, which keeps
\* the intermediate integers small.  Every operator below binds its arguments
\* once (x \in {a}) before using them, so that a nested expression is
\* evaluated once per occurrence.
RAdd(a, b) ==
  CHOOSE r \in { Num(x.n * (LCM(x.d, y.d) \div x.d) + y.n * (LCM(x.d, y.d) \div y.d),
                     LCM(x.d, y.d)) : x \in {a}, y \in {b} } : TRUE

RMul(a, b) == CHOOSE r \in { Num(x.n * y.n, x.d * y.d) : x \in {a}, y \in {b} } : TRUE

RDiv(a, b) == CHOOSE r \in { Num(x.n * y.d, x.d * y.n) : x \in {a}, y \in {b} } : TRUE

RLt(a, b) ==
  \E x \in {a}, y \in {b} :
    x.n * (LCM(x.d, y.d) \div x.d) < y.n * (LCM(x.d, y.d) \div y.d)

RLe(a, b) == ~RLt(b, a)

RMin(a, b) == CHOOSE r \in { IF RLt(y, x) THEN y ELSE x : x \in {a}, y \in {b} } : TRUE

\* JavaScript arithmetic and comparison on values that may be NaN
IsNum(x) == x.k = "num"

JAdd(a, b) ==
  CHOOSE r \in { IF IsNum(x) /\ IsNum(y) THEN RAdd(x, y) ELSE NaN
                 : x \in {a}, y \in {b} } : TRUE

JMul(a, b) ==
  CHOOSE r \in { IF IsNum(x) /\ IsNum(y) THEN RMul(x, y) ELSE NaN
                 : x \in {a}, y \in {b} } : TRUE

JLt(a, b) == \E x \in {a}, y \in {b} : IsNum(x) /\ IsNum(y) /\ RLt(x, y)

JGe(a, b) == \E x \in {a}, y \in {b} : IsNum(x) /\ IsNum(y) /\ RLe(y, x)

\* Math.round: the nearest integer, halves upwards; NaN stays NaN
MathRound(a) ==
  CHOOSE r \in { IF IsNum(x) THEN Num((2 * x.n + x.d) \div (2 * x.d), 1) ELSE NaN
                 : x \in {a} } : TRUE

\* Math.min and Math.max return NaN when an argument is NaN
MathMin(a, b) ==
  CHOOSE r \in { IF IsNum(x) /\ IsNum(y) THEN RMin(x, y) ELSE NaN
                 : x \in {a}, y \in {b} } : TRUE

MathMax(a, b) ==
  CHOOSE r \in { IF IsNum(x) /\ IsNum(y) THEN (IF RLt(x, y) THEN y ELSE x) ELSE NaN
                 : x \in {a}, y \in {b} } : TRUE

\* sum of a vector of four numbers, left to right as Array.reduce does
Sum4(v) == RAdd(RAdd(RAdd(v[1], v[2]), v[3]), v[4])

\* v.map(p => p / sum): the four quotients, computed over the common
\* denominator of the entries
DivBySum(v) ==
  LET L    == LCM(LCM(v[1].d, v[2].d), LCM(v[3].d, v[4].d))
      ints == [j \in 1..4 |-> v[j].n * (L \div v[j].d)]
      s    == ints[1] + ints[2] + ints[3] + ints[4]
  IN  [j \in 1..4 |-> Num(ints[j], s)]

----------------------------------------------------------------------------
(* HMMEngine: constants and state                                           *)

STATES == [TRENDING |-> 1, RANGING |-> 2, VOLATILE |-> 3, CHAOTIC |-> 4]

STATE_NAMES == <<"TRENDING", "RANGING", "VOLATILE", "CHAOTIC">>

MAX_HISTORY == 100

MIN_HISTORY_FOR_UPDATE == 20

\* a matrix whose RANGING row gives VOLATILE a third
VolatileProneMatrix ==
  << <<Num(7, 10),  Num(1, 5),   Num(2, 25),  Num(1, 50)>>,
     <<Num(3, 20),  Num(1, 2),   Num(33, 100), Num(1, 50)>>,
     <<Num(1, 10),  Num(3, 20),  Num(13, 20), Num(1, 10)>>,
     <<Num(1, 20),  Num(1, 10),  Num(7, 20),  Num(1, 2)>> >>

DefaultTransitionMatrix ==
  << <<Num(7, 10),  Num(1, 5),   Num(2, 25),  Num(1, 50)>>,
     <<Num(3, 20),  Num(3, 4),   Num(2, 25),  Num(1, 50)>>,
     <<Num(1, 10),  Num(3, 20),  Num(13, 20), Num(1, 10)>>,
     <<Num(1, 20),  Num(1, 10),  Num(7, 20),  Num(1, 2)>> >>

Uniform4 == <<Num(1, 4), Num(1, 4), Num(1, 4), Num(1, 4)>>

VARIABLES
  \* the price feed and the indicator library
  market,            \* indicator values derived from the current candles
  feed,              \* the observations the candles will yield next
  \* HMMEngine
  currentState,      \* currentState
  stateHistory,      \* stateHistory
  transitionMatrix,  \* transitionMatrix
  regimeInfo,        \* the value detectRegime returned last (caller's local)
  matrixUpdates,     \* number of updateTransitionMatrix runs that blended
  \* AIEngine
  isModelReady,      \* isModelReady
  trainingData,      \* trainingData
  signalCount,       \* signalCount
  retrains,          \* number of retrain() runs that trained the model
  \* RLEngine
  qTable,            \* qTable
  totalUpdates,      \* totalUpdates
  rewardHistory,     \* rewardHistory
  \* content script
  candles,           \* ohlcM1.length
  lastPrice,         \* lastPrice (0 stands for null)
  warmupComplete,    \* warmupComplete
  initPc,            \* where initializeAIEngines stands: idle, awaiting, done
  aiEngineReady,     \* aiEngineReady
  rlEngineReady,     \* rlEngineReady
  hmmEngineReady,    \* hmmEngineReady
  currentRegime,     \* currentRegime
  signals,           \* every signal object created, by identity (1, 2, ...)
  timers,            \* pending setTimeout callbacks per signal identity
  lastSignal,        \* lastSignal (0 stands for null)
  signalHistory,     \* signalHistory, identities, newest first
  totalSignals,      \* totalSignals
  winningSignals,    \* winningSignals
  losingSignals,     \* losingSignals
  genCalls,          \* number of generateSignal invocations so far
  stored,            \* localStorage: the keys the script and the engines use
  \* the caller of the engines
  lastCall,          \* the last engine call made directly: arguments and answer
  \* BacktestingEngine
  backtestResults    \* backtestResults

hmmVars == <<currentState, stateHistory, transitionMatrix, regimeInfo, matrixUpdates>>

aiVars == <<isModelReady, trainingData, signalCount, retrains>>

rlVars == <<qTable, totalUpdates, rewardHistory>>

csVars == <<candles, lastPrice, warmupComplete, initPc, aiEngineReady, rlEngineReady,
            hmmEngineReady, currentRegime, signals, timers, lastSignal, signalHistory,
            totalSignals, winningSignals, losingSignals, genCalls, stored>>

envVars == <<market, feed>>

\* no engine call made directly yet
NoCall == [op |-> "none", args |-> [none |-> TRUE], result |-> "null", threw |-> FALSE]

vars == <<market, feed, currentState, stateHistory, transitionMatrix, regimeInfo,
          matrixUpdates, isModelReady, trainingData, signalCount, retrains, qTable,
          totalUpdates, rewardHistory, candles, lastPrice, warmupComplete, initPc,
          aiEngineReady, rlEngineReady, hmmEngineReady, currentRegime, signals, timers,
          lastSignal, signalHistory, totalSignals, winningSignals, losingSignals,
          genCalls, stored, lastCall, backtestResults>>

\* calculateEmissionProbabilities(adx, atrRatio, tickFrequency, spreadEstimate):
\* the last two parameters are never read
calculateEmissionProbabilities(adx, atrRatio) ==
  LET trending ==
        IF RLt(Num(25, 1), adx)
        THEN RMul(RMin(Num(1, 1), RDiv(adx, Num(50, 1))), Num(9, 10))
        ELSE Num(1, 10)
      ranging ==
        IF RLt(adx, Num(20, 1)) /\ RLt(atrRatio, Num(15, 1000)) THEN Num(8, 10)
        ELSE IF RLt(adx, Num(25, 1)) THEN Num(5, 10)
        ELSE Num(1, 10)
      volatile ==
        IF RLt(Num(15, 1000), atrRatio) /\ RLt(atrRatio, Num(3, 100))
        THEN RMul(RMin(Num(1, 1), RDiv(atrRatio, Num(3, 100))), Num(85, 100))
        ELSE Num(15, 100)
      chaotic ==
        IF (RLt(adx, Num(15, 1)) /\ RLt(Num(25, 1000), atrRatio))
           \/ RLt(Num(35, 1000), atrRatio) THEN Num(9, 10)
        ELSE IF RLt(Num(2, 100), atrRatio) THEN Num(4, 10)
        ELSE Num(5, 100)
  IN  DivBySum(<<trending, ranging, volatile, chaotic>>)

\* the guard of detectRegime: if (!adx || !atr || !avgPrice)
InvalidObservation(ind) ==
  ~Truthy(ind.adx) \/ ~Truthy(ind.atr) \/ ~Truthy(ind.avgPrice)

\* a faulty variant: the transition row is left out of the posterior
PosteriorProbsEmissionOnly(ind, cur, tm) ==
  calculateEmissionProbabilities(ind.adx, RDiv(ind.atr, ind.avgPrice))

\* a faulty variant: the row of the initial state RANGING is used, not the row
\* of the current state
PosteriorProbsDefaultRow(ind, cur, tm) ==
  LET atrRatio      == RDiv(ind.atr, ind.avgPrice)
      emissionProbs == calculateEmissionProbabilities(ind.adx, atrRatio)
  IN  DivBySum([j \in 1..4 |-> RMul(emissionProbs[j], tm[STATES.RANGING][j])])

\* posteriorProbs, normalised: emission times the row of the current state
PosteriorProbs(ind, cur, tm) ==
  LET atrRatio      == RDiv(ind.atr, ind.avgPrice)
      emissionProbs == calculateEmissionProbabilities(ind.adx, atrRatio)
  IN  DivBySum([j \in 1..4 |-> RMul(emissionProbs[j], tm[cur][j])])

\* one iteration of the selection loop: if (normalizedProbs[i] > maxProb)
SelectStep(acc, probs, i) ==
  IF RLt(acc.maxProb, probs[i])
  THEN [maxProb |-> probs[i], bestState |-> i]
  ELSE acc

\* let maxProb = 0; let bestState = currentState; for (i = 0; i < 4; i++) ...
SelectBest(probs, cur) ==
  SelectStep(SelectStep(SelectStep(SelectStep(
    [maxProb |-> Num(0, 1), bestState |-> cur], probs, 1), probs, 2), probs, 3), probs, 4)

\* a faulty variant: a full history keeps its oldest entries and drops the new one
PushHistoryKeepOldest(h, e) ==
  IF Len(h) >= MAX_HISTORY THEN h ELSE Append(h, e)

\* stateHistory.push(e); if (stateHistory.length > MAX_HISTORY) stateHistory.shift()
PushHistory(h, e) ==
  LET pushed == Append(h, e)
  IN  IF Len(pushed) > MAX_HISTORY THEN Tail(pushed) ELSE pushed

\* detectRegime(indicators): the new currentState and stateHistory, and the
\* returned object.  The history entry's timestamp is left out.
detectRegime(ind, cur, hist, tm) ==
  IF InvalidObservation(ind)
  THEN [currentState |-> cur,
        stateHistory |-> hist,
        result       |-> [state         |-> cur,
                          stateName     |-> STATE_NAMES[cur],
                          confidence    |-> Num(50, 1),
                          stateProbs    |-> Uniform4,
                          previousState |-> "undefined"]]
  ELSE LET normalizedProbs == PosteriorProbs(ind, cur, tm)
           best            == SelectBest(normalizedProbs, cur)
           conf            == RMul(best.maxProb, Num(100, 1))
       IN  [currentState |-> best.bestState,
            stateHistory |-> PushHistory(hist,
                               [state      |-> best.bestState,
                                stateName  |-> STATE_NAMES[best.bestState],
                                confidence |-> conf,
                                adx        |-> ind.adx,
                                atrRatio   |-> RDiv(ind.atr, ind.avgPrice),
                                probs      |-> normalizedProbs]),
            result       |-> [state         |-> best.bestState,
                              stateName     |-> STATE_NAMES[best.bestState],
                              confidence    |-> conf,
                              stateProbs    |-> normalizedProbs,
                              previousState |-> STATE_NAMES[cur]]]

\* transitions[prevState][currState]++ over consecutive history entries
TransitionCount(hist, i, j) ==
  Cardinality({k \in 2..Len(hist) : hist[k - 1].state = i /\ hist[k].state = j})

RowSum(hist, i) ==
  TransitionCount(hist, i, 1) + TransitionCount(hist, i, 2)
    + TransitionCount(hist, i, 3) + TransitionCount(hist, i, 4)

\* a faulty variant: the observed frequency is added without its weight alpha
BlendEntryUnweighted(old, count, rowSum) ==
  RAdd(RMul(Num(9, 10), old), Num(count, rowSum))

\* (1 - alpha) * transitionMatrix[i][j] + alpha * observedProb, alpha = 0.1
BlendEntry(old, count, rowSum) ==
  RAdd(RMul(Num(9, 10), old), RMul(Num(1, 10), Num(count, rowSum)))

\* a faulty variant: the matrix is blended however short the history is
updateTransitionMatrixAnyLength(hist, tm) ==
  [i \in 1..4 |->
    IF RowSum(hist, i) > 0
    THEN [j \in 1..4 |->
           BlendEntry(tm[i][j], TransitionCount(hist, i, j), RowSum(hist, i))]
    ELSE tm[i]]

\* updateTransitionMatrix(): the new matrix
updateTransitionMatrix(hist, tm) ==
  IF Len(hist) < MIN_HISTORY_FOR_UPDATE
  THEN tm
  ELSE [i \in 1..4 |->
         IF RowSum(hist, i) > 0
         THEN [j \in 1..4 |->
                BlendEntry(tm[i][j], TransitionCount(hist, i, j), RowSum(hist, i))]
         ELSE tm[i]]

----------------------------------------------------------------------------
(* AIEngine (ai-engine.js)                                                  *)

RETRAIN_INTERVAL == 50

MAX_TRAINING_DATA == 500

MIN_TRAINING_DATA == 20

\* normalizeFeatures(rsi, adx, atr, williamsR, cci)
normalizeFeatures(ind) ==
  << JMul(ind.rsi, Num(1, 100)),
     JMul(ind.adx, Num(1, 100)),
     MathMin(JMul(ind.atr, Num(100, 1)), Num(1, 1)),
     JMul(JAdd(ind.williamsR, Num(100, 1)), Num(1, 100)),
     JMul(JAdd(ind.cci, Num(200, 1)), Num(1, 400)) >>

\* a faulty variant: the label follows the outcome alone
SampleLabelByOutcome(action, wasWin) ==
  IF wasWin THEN <<1, 0>> ELSE <<0, 1>>

\* the label of a training sample
SampleLabel(action, wasWin) ==
  IF wasWin THEN (IF action = "BUY" THEN <<1, 0>> ELSE <<0, 1>>)
  ELSE (IF action = "BUY" THEN <<0, 1>> ELSE <<1, 0>>)

\* trainingData.push(s); if (length > MAX_TRAINING_DATA) slice(-MAX_TRAINING_DATA)
PushSample(data, sample) ==
  LET pushed == Append(data, sample)
  IN  IF Len(pushed) > MAX_TRAINING_DATA
      THEN SubSeq(pushed, Len(pushed) - MAX_TRAINING_DATA + 1, Len(pushed))
      ELSE pushed

\* a faulty variant: retraining does not wait for the fiftieth sample
RetrainRunsAnyCount(count, data, ready) ==
  /\ Len(data) >= MIN_TRAINING_DATA
  /\ ready

\* the retraining trigger of addTrainingSample together with retrain()'s guard
RetrainRuns(count, data, ready) ==
  /\ count % RETRAIN_INTERVAL = 0
  /\ Len(data) >= MIN_TRAINING_DATA
  /\ ready

NoTraining == [ran |-> FALSE, epochs |-> 0, samples |-> 0]

\* retrain(): model.train(inputs, labels, 10) over every sample of the buffer
retrain(data, ready) ==
  IF ~ready \/ Len(data) < 20 THEN NoTraining
  ELSE [ran |-> TRUE, epochs |-> 10, samples |-> Len(data)]

\* addTrainingSample(indicators, action, wasWin): the engine's new state and
\* the training it ran
addTrainingSample(ind, action, wasWin, data, count, ready, trained) ==
  LET sample  == [features |-> normalizeFeatures(ind), label |-> SampleLabel(action, wasWin)]
      newData == PushSample(data, sample)
  IN  [trainingData |-> newData,
       signalCount  |-> count + 1,
       retrains     |-> IF RetrainRuns(count + 1, newData, ready)
                        THEN trained + 1 ELSE trained,
       training     |-> IF RetrainRuns(count + 1, newData, ready)
                        THEN retrain(newData, ready) ELSE NoTraining]

----------------------------------------------------------------------------
(* RLEngine (Q-learning): Q-values are integers in units of 1/QSCALE        *)

QSCALE == 1000 * 1000

REGIMES == {"TRENDING", "RANGING", "VOLATILE", "CHAOTIC"}

ACTION_NAMES == {"BUY", "SELL"}

MAX_REWARD_HISTORY == 500

InitialQTable == [r \in REGIMES |-> [a \in ACTION_NAMES |-> QSCALE \div 2]]

\* a / b rounded to the nearest integer
RoundDiv(a, b) == (2 * a + b) \div (2 * b)

OtherAction(a) == IF a = "BUY" THEN "SELL" ELSE "BUY"

KnownRegime(q, regime) == regime \in DOMAIN q

\* a faulty variant: the policy never defers to the predictor for a known regime
selectActionIgnoresPredictor(q, regime, aiAction, explore, coin) ==
  IF explore THEN coin
  ELSE IF ~KnownRegime(q, regime)
       THEN (IF aiAction # "null" THEN aiAction ELSE coin)
  ELSE IF q[regime].BUY > q[regime].SELL THEN "BUY" ELSE "SELL"

\* a faulty variant: equal Q-values are answered with BUY
selectActionBuyOnTie(q, regime, aiAction, explore, coin) ==
  IF explore THEN coin
  ELSE IF ~KnownRegime(q, regime)
       THEN (IF aiAction # "null" THEN aiAction ELSE coin)
  ELSE IF aiAction # "null" /\ 10 * Abs(q[regime].BUY - q[regime].SELL) < QSCALE
       THEN aiAction
  ELSE IF q[regime].BUY >= q[regime].SELL THEN "BUY" ELSE "SELL"

\* selectAction(regime, aiAction): explore is Math.random() < EXPLORATION_RATE,
\* coin the action a later Math.random() < 0.5 picks; aiAction "null" is none
selectAction(q, regime, aiAction, explore, coin) ==
  IF explore THEN coin
  ELSE IF ~KnownRegime(q, regime)
       THEN (IF aiAction # "null" THEN aiAction ELSE coin)
  ELSE IF aiAction # "null" /\ 10 * Abs(q[regime].BUY - q[regime].SELL) < QSCALE
       THEN aiAction
  ELSE IF q[regime].BUY > q[regime].SELL THEN "BUY" ELSE "SELL"

\* getConfidenceAdjustment(regime, action)
getConfidenceAdjustment(q, regime, action) ==
  IF ~KnownRegime(q, regime) THEN 0
  ELSE LET qDiff == q[regime][action] - q[regime][OtherAction(action)]
       IN  IF 5 * qDiff > QSCALE THEN 10
           ELSE IF 10 * qDiff > QSCALE THEN 5
           ELSE IF 10 * qDiff < -QSCALE THEN -5
           ELSE 0

\* a faulty variant: the larger Q-value of the next regime is not discounted
NewQUndiscounted(currentQ, reward, maxNextQ) ==
  currentQ + RoundDiv(reward * QSCALE + maxNextQ - currentQ, 10)

\* a faulty variant: the discounted value of the next regime is left out
NewQNoDiscount(currentQ, reward, maxNextQ) ==
  currentQ + RoundDiv(reward * QSCALE - currentQ, 10)

\* currentQ + LEARNING_RATE * (reward + DISCOUNT_FACTOR * maxNextQ - currentQ)
NewQ(currentQ, reward, maxNextQ) ==
  currentQ + RoundDiv(reward * QSCALE + RoundDiv(9 * maxNextQ, 10) - currentQ, 10)

MaxQ(q, regime) ==
  IF q[regime].BUY > q[regime].SELL THEN q[regime].BUY ELSE q[regime].SELL

\* a faulty variant: only the newest reward event is kept
PushRewardKeepOne(h, e) == <<e>>

\* rewardHistory.push(e); if (rewardHistory.length > MAX_HISTORY) shift()
PushReward(h, e) ==
  LET pushed == Append(h, e)
  IN  IF Len(pushed) > MAX_REWARD_HISTORY THEN Tail(pushed) ELSE pushed

\* updateQValue(regime, action, reward, nextRegime): the engine's new state and
\* the Q-table it saves (the reward event's timestamp is left out)
updateQValue(q, updates, history, regime, action, reward, nextRegime) ==
  IF ~KnownRegime(q, regime) \/ ~KnownRegime(q, nextRegime)
  THEN [qTable |-> q, totalUpdates |-> updates, rewardHistory |-> history, saved |-> FALSE]
  ELSE LET currentQ == q[regime][action]
           newQ     == NewQ(currentQ, reward, MaxQ(q, nextRegime))
       IN  [qTable        |-> [q EXCEPT ![regime][action] = newQ],
            totalUpdates  |-> updates + 1,
            rewardHistory |-> PushReward(history,
                                [regime |-> regime, action |-> action, reward |-> reward,
                                 oldQ |-> currentQ, newQ |-> newQ]),
            saved         |-> TRUE]

----------------------------------------------------------------------------
(* The indicator library and the pattern recogniser, as seen by the content *)
(* script: one record per set of candles                                    *)

NoLevel == [found |-> FALSE, strength |-> Num(0, 1)]

Level(s) == [found |-> TRUE, strength |-> s]

\* one chart pattern found by analyzeAllPatterns
Pattern(direction, confidence) == [direction |-> direction, confidence |-> confidence]

\* the values the indicator functions return for the current candles: rsi,
\* adx.adx, atr, the 20-close average, williamsR, cci, the microstructure's
\* volatilityClustering, the chart patterns, and the support and resistance
\* levels within 0.5% of the current price
Market(rsi, adx, atr, avgPrice, williamsR, cci, vc, patterns, sup, res) ==
  [rsi |-> rsi, adx |-> adx, atr |-> atr, avgPrice |-> avgPrice,
   williamsR |-> williamsR, cci |-> cci, volatilityClustering |-> vc,
   patterns |-> patterns, nearSupport |-> sup, nearResistance |-> res]

\* an observation for the classifier with unremarkable other indicators
Obs(adx, atr, avgPrice) ==
  Market(Num(50, 1), adx, atr, avgPrice, Num(-50, 1), Num(10, 1), Num(1, 1),
         <<>>, NoLevel, NoLevel)

----------------------------------------------------------------------------
(* Content script v7 (IMPLEMENTATION.md): constants and pure parts          *)

WARMUP_CANDLES == 50

SIGNAL_MAX_HISTORY == 500

MATRIX_UPDATE_PERIOD == 20

\* getRegimeStrategy(stateName).confidenceBoost, RANGING's for an unknown name
confidenceBoost(stateName) ==
  CASE stateName = "TRENDING" -> 15
    [] stateName = "RANGING"  -> 20
    [] stateName = "VOLATILE" -> 5
    [] stateName = "CHAOTIC"  -> -15
    [] OTHER                  -> 20

\* what AIEngine.predict returns: nothing while the model is not ready,
\* otherwise the network's output
NoPrediction == [present |-> FALSE, action |-> "null", confidence |-> NaN]

Prediction(action, confidence) ==
  [present |-> TRUE, action |-> action, confidence |-> confidence]

predict(ready, out) == IF ~ready THEN NoPrediction ELSE out

\* if (!rsi || !adx || !atr || !williamsR || !cci) return null; calculateADX
\* returns an object once 28 candles exist, so !adx is false after warmup
CoreIndicatorMissing(m) ==
  ~Truthy(m.rsi) \/ ~Truthy(m.atr) \/ ~Truthy(m.williamsR) \/ ~Truthy(m.cci)

\* a faulty variant: the policy's confidence adjustment is added only when the
\* policy overrides the predictor
BaseDecisionAdjustsOverridesOnly(m, regime, q, aiPrediction, rlReady, rnd) ==
  IF aiPrediction.present
  THEN IF rlReady
       THEN LET rlAction  == selectAction(q, regime, aiPrediction.action,
                                          rnd.explore, rnd.coin)
                rlConfAdj == getConfidenceAdjustment(q, regime, rlAction)
            IN  [action |-> rlAction,
                 confidence |-> IF rlAction # aiPrediction.action
                                THEN JAdd(Num(60, 1), Num(rlConfAdj, 1))
                                ELSE aiPrediction.confidence]
       ELSE [action |-> aiPrediction.action, confidence |-> aiPrediction.confidence]
  ELSE IF rlReady
  THEN [action     |-> selectAction(q, regime, "null", rnd.explore, rnd.coin),
        confidence |-> Num(55, 1)]
  ELSE IF JLt(m.rsi, Num(35, 1)) \/ JLt(m.williamsR, Num(-80, 1))
          \/ JLt(m.cci, Num(-100, 1))
  THEN [action |-> "BUY", confidence |-> Num(50, 1)]
  ELSE IF JLt(Num(65, 1), m.rsi) \/ JLt(Num(-20, 1), m.williamsR)
          \/ JLt(Num(100, 1), m.cci)
  THEN [action |-> "SELL", confidence |-> Num(50, 1)]
  ELSE [action |-> rnd.coin, confidence |-> Num(45, 1)]

\* the action and the base confidence: predictor, then policy, then heuristics
BaseDecision(m, regime, q, aiPrediction, rlReady, rnd) ==
  IF aiPrediction.present
  THEN IF rlReady
       THEN LET rlAction  == selectAction(q, regime, aiPrediction.action,
                                          rnd.explore, rnd.coin)
                rlConfAdj == getConfidenceAdjustment(q, regime, rlAction)
                base      == IF rlAction # aiPrediction.action
                             THEN Num(60, 1) ELSE aiPrediction.confidence
            IN  [action |-> rlAction, confidence |-> JAdd(base, Num(rlConfAdj, 1))]
       ELSE [action |-> aiPrediction.action, confidence |-> aiPrediction.confidence]
  ELSE IF rlReady
  THEN [action     |-> selectAction(q, regime, "null", rnd.explore, rnd.coin),
        confidence |-> Num(55, 1)]
  ELSE IF JLt(m.rsi, Num(35, 1)) \/ JLt(m.williamsR, Num(-80, 1))
          \/ JLt(m.cci, Num(-100, 1))
  THEN [action |-> "BUY", confidence |-> Num(50, 1)]
  ELSE IF JLt(Num(65, 1), m.rsi) \/ JLt(Num(-20, 1), m.williamsR)
          \/ JLt(Num(100, 1), m.cci)
  THEN [action |-> "SELL", confidence |-> Num(50, 1)]
  ELSE [action |-> rnd.coin, confidence |-> Num(45, 1)]

\* the microstructure adjustment
ClusteringAdjustment(vc) ==
  IF JLt(Num(3, 2), vc) THEN Num(-10, 1)
  ELSE IF JLt(vc, Num(7, 10)) THEN Num(5, 1)
  ELSE Num(0, 1)

\* one pattern's contribution to patternBoost
PatternVote(p, action) ==
  IF (p.direction = "BULLISH" /\ action = "BUY")
     \/ (p.direction = "BEARISH" /\ action = "SELL")
  THEN RMul(p.confidence, Num(10, 1))
  ELSE IF (p.direction = "BULLISH" /\ action = "SELL")
          \/ (p.direction = "BEARISH" /\ action = "BUY")
  THEN RMul(p.confidence, Num(-5, 1))
  ELSE Num(0, 1)

RECURSIVE PatternVotes(_, _)
PatternVotes(ps, action) ==
  IF ps = <<>> THEN Num(0, 1)
  ELSE RAdd(PatternVote(Head(ps), action), PatternVotes(Tail(ps), action))

\* the support/resistance contribution to patternBoost
LevelBoost(m, action) ==
  IF m.nearSupport.found /\ action = "BUY"
  THEN RMul(Num(5, 1), m.nearSupport.strength)
  ELSE IF m.nearResistance.found /\ action = "SELL"
  THEN RMul(Num(5, 1), m.nearResistance.strength)
  ELSE Num(0, 1)

\* a faulty variant: the confidence is neither rounded nor clamped
ClampConfidenceOff(c) == c

\* confidence = Math.max(30, Math.min(95, Math.round(confidence)))
ClampConfidence(c) == MathMax(Num(30, 1), MathMin(Num(95, 1), MathRound(c)))

\* the signal's duration in minutes
SignalDuration(m, rnd) ==
  IF JLt(Num(30, 1), m.adx) THEN 5
  ELSE IF JLt(Num(15, 1000), RDiv(m.atr, m.avgPrice)) THEN rnd.shortDuration
  ELSE 3

NullAnalysis ==
  [present |-> FALSE, action |-> "null", confidence |-> NaN, duration |-> 0,
   volatility |-> NaN, adxStrength |-> NaN, rsi |-> NaN, williamsR |-> NaN,
   cci |-> NaN, regime |-> "null"]

\* the analysis object, given the regime and the base decision
Analysis(m, reg, base, rnd) ==
  [present |-> TRUE, action |-> base.action,
   confidence |->
     ClampConfidence(
       JAdd(JAdd(JAdd(base.confidence, Num(confidenceBoost(reg), 1)),
                 ClusteringAdjustment(m.volatilityClustering)),
            RAdd(PatternVotes(m.patterns, base.action), LevelBoost(m, base.action)))),
   duration |-> SignalDuration(m, rnd),
   volatility |-> RDiv(m.atr, m.avgPrice), adxStrength |-> m.adx,
   rsi |-> m.rsi, williamsR |-> m.williamsR, cci |-> m.cci,
   regime |-> reg]

\* analyzeIndicators() from the regime on: hmm is what detectRegime answered
\* (unused when the classifier is not ready)
Fuse(m, hmmReady, hmm, cur, hist, info, regime, q, pred, rlReady, rnd) ==
  LET reg == IF hmmReady THEN hmm.result.stateName ELSE regime
  IN  [analysis |->
         CHOOSE a \in { Analysis(m, reg, base, rnd)
                        : base \in {BaseDecision(m, reg, q, pred, rlReady, rnd)} } : TRUE,
       currentState  |-> IF hmmReady THEN hmm.currentState ELSE cur,
       stateHistory  |-> IF hmmReady THEN hmm.stateHistory ELSE hist,
       currentRegime |-> reg,
       regimeInfo    |-> IF hmmReady THEN hmm.result ELSE info]

\* analyzeIndicators(): the analysis it returns (NullAnalysis for null) and the
\* classifier state and currentRegime it leaves behind
analyzeIndicators(m, warm, n, hmmReady, aiReady, rlReady, modelReady, cur, hist, tm, info, regime, q, out, rnd) ==
  IF ~warm \/ n < WARMUP_CANDLES \/ CoreIndicatorMissing(m)
  THEN [analysis |-> NullAnalysis, currentState |-> cur, stateHistory |-> hist,
        currentRegime |-> regime, regimeInfo |-> info]
  ELSE CHOOSE r \in
         { Fuse(m, hmmReady, hmm, cur, hist, info, regime, q,
                IF aiReady THEN predict(modelReady, out) ELSE NoPrediction,
                rlReady, rnd)
           : hmm \in {detectRegime(m, cur, hist, tm)} } : TRUE

\* a faulty variant: the analysis is used without being tested
AnalysisUsableAlways(a) == TRUE

\* generateSignal's test: analysis && analysis.action && analysis.confidence >= 30
AnalysisUsable(a) ==
  a.present /\ a.action # "null" /\ JGe(a.confidence, Num(30, 1))

\* the signal object generateSignal builds, without its reasons and its wr
\* (display only); result "null" is JavaScript's null
SignalObject(a, m, regime, price, id, rnd) ==
  LET usable   == AnalysisUsable(a)
      rsiValue == IF Truthy(m.rsi) THEN m.rsi ELSE Num(50, 1)
  IN  [action      |-> IF usable THEN a.action
                       ELSE IF RLt(rsiValue, Num(50, 1)) THEN "BUY" ELSE "SELL",
       confidence  |-> IF usable THEN a.confidence ELSE Num(45 + rnd.jitter, 1),
       duration    |-> IF usable THEN a.duration ELSE 3,
       expiry      |-> (IF usable THEN a.duration ELSE 3) * 60,
       price       |-> price,
       timestamp   |-> id,
       volatility  |-> IF usable THEN a.volatility ELSE Num(1, 100),
       adxStrength |-> IF usable THEN a.adxStrength ELSE Num(20, 1),
       rsi         |-> IF usable THEN a.rsi ELSE rsiValue,
       williamsR   |-> IF usable THEN a.williamsR ELSE Num(-50, 1),
       cci         |-> IF usable THEN a.cci ELSE Num(0, 1),
       regime      |-> IF usable THEN a.regime ELSE regime,
       isFallback  |-> ~a.present \/ a.action = "null" \/ JLt(a.confidence, Num(30, 1)),
       entryPrice  |-> price,
       result      |-> "null"]

\* signal.indicators
SignalIndicators(sig) ==
  [rsi |-> sig.rsi, adx |-> sig.adxStrength, atr |-> sig.volatility,
   williamsR |-> sig.williamsR, cci |-> sig.cci]

\* the object publishToAutoTrader writes under PS_AT_FEED
FeedEntry(sig) ==
  [action |-> sig.action, confidence |-> sig.confidence, duration |-> sig.duration,
   timestamp |-> sig.timestamp, entryPrice |-> sig.price,
   expiry |-> sig.expiry, isFallback |-> sig.isFallback]

NoFeed ==
  [action |-> "null", confidence |-> NaN, duration |-> 0, timestamp |-> 0,
   entryPrice |-> 0, expiry |-> 0, isFallback |-> FALSE]

\* localStorage with nothing in it.  state says how it answers: "ok", "full"
\* (setItem throws QuotaExceededError) or "denied" (every access throws)
EmptyStorage ==
  [state |-> "ok",
   hasQTable |-> FALSE, qTable |-> InitialQTable,
   hasFeed |-> FALSE, feed |-> NoFeed,
   hasTraining |-> FALSE, trainingData |-> <<>>, signalCount |-> 0,
   hasStats |-> FALSE, total |-> 0, wins |-> 0, losses |-> 0,
   hasHistory |-> FALSE, history |-> <<>>]

\* localStorage.setItem throws
SetItemThrows(st) == st.state # "ok"

\* localStorage.getItem and localStorage.removeItem throw
AccessThrows(st) == st.state = "denied"

\* JSON.parse(JSON.stringify(x)) of a number: NaN and undefined come back null
JsonNumber(x) == IF x.k = "num" THEN x ELSE [k |-> "null", n |-> 0, d |-> 1]

\* JSON.parse(JSON.stringify(data)) of the training samples
JsonSamples(data) ==
  [i \in DOMAIN data |->
     [features |-> [j \in DOMAIN data[i].features |-> JsonNumber(data[i].features[j])],
      label    |-> data[i].label]]

\* RLEngine.saveQTable(): the write is given up when setItem throws
saveQTable(st, q) ==
  IF SetItemThrows(st) THEN st ELSE [st EXCEPT !.hasQTable = TRUE, !.qTable = q]

\* RLEngine.loadQTable(): the Q-table afterwards
loadQTable(st, q) ==
  IF ~AccessThrows(st) /\ st.hasQTable THEN st.qTable ELSE q

\* AIEngine.saveTrainingData()
saveTrainingData(st, data, count) ==
  IF SetItemThrows(st) THEN st
  ELSE [st EXCEPT !.hasTraining = TRUE, !.trainingData = JsonSamples(data),
                  !.signalCount = count]

\* a faulty variant: the samples are read back and the counter is not
loadTrainingDataKeepsCount(st, data, count) ==
  IF AccessThrows(st) THEN [trainingData |-> <<>>, signalCount |-> 0]
  ELSE IF st.hasTraining
  THEN [trainingData |-> st.trainingData, signalCount |-> count]
  ELSE [trainingData |-> data, signalCount |-> count]

\* AIEngine.loadTrainingData(): trainingData and signalCount afterwards
loadTrainingData(st, data, count) ==
  IF AccessThrows(st) THEN [trainingData |-> <<>>, signalCount |-> 0]
  ELSE IF st.hasTraining
  THEN [trainingData |-> st.trainingData, signalCount |-> st.signalCount]
  ELSE [trainingData |-> data, signalCount |-> count]

\* h.slice(-n)
SliceLast(h, n) == IF Len(h) > n THEN SubSeq(h, Len(h) - n + 1, Len(h)) ELSE h

\* saveSettings(): PS_STATS and PS_V7_SIGNAL_HISTORY
saveSettings(st, total, wins, losses, history) ==
  IF SetItemThrows(st) THEN st
  ELSE [st EXCEPT !.hasStats = TRUE, !.total = total, !.wins = wins,
                  !.losses = losses, !.hasHistory = TRUE,
                  !.history = SliceLast(history, SIGNAL_MAX_HISTORY)]

\* the three removeItem calls of the RESET_HISTORY handler
removeItems(st) ==
  IF AccessThrows(st) THEN st
  ELSE [st EXCEPT !.hasHistory = FALSE, !.history = <<>>,
                  !.hasTraining = FALSE, !.trainingData = <<>>, !.signalCount = 0,
                  !.hasQTable = FALSE, !.qTable = InitialQTable]

\* publishToAutoTrader(signal): the setItem call is not guarded, so where it
\* throws nothing is written and the exception leaves generateSignal
publishToAutoTrader(st, sig) ==
  IF SetItemThrows(st) THEN st
  ELSE [st EXCEPT !.hasFeed = TRUE, !.feed = FeedEntry(sig)]

\* a faulty variant: the signal is not inserted in the history
UnshiftSignalDropped(h, id) == h

\* signalHistory.unshift(s); if (length > MAX_HISTORY) slice(0, MAX_HISTORY)
UnshiftSignal(h, id) ==
  LET pushed == <<id>> \o h
  IN  IF Len(pushed) > SIGNAL_MAX_HISTORY
      THEN SubSeq(pushed, 1, SIGNAL_MAX_HISTORY) ELSE pushed

\* a faulty variant: a signal that has its result is checked again
AlreadyCheckedNever(sig) == FALSE

\* checkSignalResult's first guard: signal.result !== null
AlreadyChecked(sig) == sig.result # "null"

\* a faulty variant: the callback always gives up for want of a price
PriceMissingAlways(sig, price) == TRUE

\* its second guard: !currentPrice || !entryPrice
PriceMissing(sig, price) == price = 0 \/ sig.entryPrice = 0

\* a faulty variant: a price equal to the entry price counts as a win
IsWinOnTie(sig, price) ==
  IF sig.action = "BUY" THEN price >= sig.entryPrice ELSE price <= sig.entryPrice

\* isWin
IsWin(sig, price) ==
  IF sig.action = "BUY" THEN price > sig.entryPrice ELSE price < sig.entryPrice

\* a faulty variant: the period counts the signals resolved, this one included
MatrixUpdateDueByOutcomes(total) ==
  (winningSignals + losingSignals + 1) % MATRIX_UPDATE_PERIOD = 0

\* checkSignalResult's test before HMMEngine.updateTransitionMatrix():
\* totalSignals % 20 === 0
MatrixUpdateDue(total) == total % MATRIX_UPDATE_PERIOD = 0

----------------------------------------------------------------------------
(* Content script v7: the handlers                                          *)

MaxGenerate == 2

NoRegimeInfo ==
  [state |-> 0, stateName |-> "none", confidence |-> NaN,
   stateProbs |-> <<>>, previousState |-> "undefined"]

\* the random numbers one generateSignal run may draw
Draw(explore, coin, jitter, shortDuration) ==
  [explore |-> explore, coin |-> coin, jitter |-> jitter,
   shortDuration |-> shortDuration]

\* no continuation of initializeAIEngines is pending; the event loop runs a
\* pending continuation before it starts the next timer or message task
NoPendingContinuation == initPc # "awaiting"

\* pushTick(timestamp, price) for a price readPriceFromDom accepted: isNew says
\* whether the tick opens a new candle, ok whether AIEngine.initialize, called
\* when the warmup completes, succeeds.  The candle count stops at
\* WARMUP_CANDLES; the indicators follow the feed once the warmup is over.
PushTick(price, isNew, ok) ==
  LET n        == IF isNew /\ candles < WARMUP_CANDLES THEN candles + 1 ELSE candles
      finishes == isNew /\ ~warmupComplete /\ n >= WARMUP_CANDLES
  IN  /\ NoPendingContinuation
      /\ lastPrice' = price
      /\ candles' = n
      /\ warmupComplete' = (warmupComplete \/ finishes)
      /\ initPc' = IF finishes THEN "awaiting" ELSE initPc
      /\ isModelReady' = IF finishes THEN ok ELSE isModelReady
      /\ IF finishes /\ ok
         THEN \E l \in {loadTrainingData(stored, trainingData, signalCount)} :
                /\ trainingData' = l.trainingData
                /\ signalCount' = l.signalCount
         ELSE UNCHANGED <<trainingData, signalCount>>
      /\ IF isNew /\ warmupComplete /\ feed # <<>>
         THEN market' = Head(feed) /\ feed' = Tail(feed)
         ELSE UNCHANGED <<market, feed>>
      /\ UNCHANGED <<hmmVars, retrains, rlVars,
                     aiEngineReady, rlEngineReady, hmmEngineReady, currentRegime,
                     signals, timers, lastSignal, signalHistory, totalSignals,
                     winningSignals, losingSignals, genCalls, stored, lastCall, backtestResults>>

\* initializeAIEngines() after its await: the three ready flags; RLEngine's
\* initialize loads the stored Q-table
FinishInitializeAIEngines ==
  /\ initPc = "awaiting"
  /\ initPc' = "done"
  /\ aiEngineReady' = isModelReady
  /\ rlEngineReady' = TRUE
  /\ hmmEngineReady' = TRUE
  /\ qTable' = loadQTable(stored, qTable)
  /\ UNCHANGED <<envVars, hmmVars, aiVars, totalUpdates, rewardHistory, candles,
                 lastPrice, warmupComplete, currentRegime, signals, timers,
                 lastSignal, signalHistory, totalSignals, winningSignals,
                 losingSignals, genCalls, stored, lastCall, backtestResults>>

\* generateSignal(): out is what the network would predict, rnd the random
\* numbers drawn.  scheduleSignalResultCheck and publishToAutoTrader are part
\* of it.
generateSignal(out, rnd) ==
  /\ genCalls' = genCalls + 1
  /\ IF ~warmupComplete
     THEN UNCHANGED <<envVars, hmmVars, aiVars, rlVars, candles, lastPrice,
                      warmupComplete, initPc, aiEngineReady, rlEngineReady,
                      hmmEngineReady, currentRegime, signals, timers, lastSignal,
                      signalHistory, totalSignals, winningSignals, losingSignals,
                      stored>>
     ELSE \E r \in {analyzeIndicators(market, warmupComplete, candles,
                      hmmEngineReady, aiEngineReady, rlEngineReady, isModelReady,
                      currentState, stateHistory, transitionMatrix, regimeInfo,
                      currentRegime, qTable, out, rnd)} :
          \E sig \in {SignalObject(r.analysis, market, r.currentRegime, lastPrice,
                                   Len(signals) + 1, rnd)} :
            /\ currentState' = r.currentState
            /\ stateHistory' = r.stateHistory
            /\ regimeInfo' = r.regimeInfo
            /\ currentRegime' = r.currentRegime
            /\ signals' = Append(signals, sig)
            /\ lastSignal' = sig.timestamp
            /\ totalSignals' = totalSignals + 1
            /\ signalHistory' = UnshiftSignal(signalHistory, sig.timestamp)
            /\ timers' = Append(timers, 1)
            /\ stored' = publishToAutoTrader(
                            saveSettings(stored, totalSignals + 1, winningSignals,
                                         losingSignals, signalHistory), sig)
            /\ UNCHANGED <<envVars, transitionMatrix, matrixUpdates, aiVars,
                           rlVars, candles, lastPrice, warmupComplete, initPc,
                           aiEngineReady, rlEngineReady, hmmEngineReady,
                           winningSignals, losingSignals>>

\* the scheduler calling generateSignal
GenerateSignal(out, rnd) ==
  /\ genCalls < MaxGenerate
  /\ generateSignal(out, rnd)
  /\ UNCHANGED <<lastCall, backtestResults>>

\* checkSignalResult(signal) for the signal of identity id; the timers are the
\* caller's
checkSignalResult(id) ==
  LET sig == signals[id]
  IN  IF AlreadyChecked(sig) \/ PriceMissing(sig, lastPrice)
      THEN UNCHANGED <<envVars, hmmVars, aiVars, rlVars, candles, lastPrice,
                       warmupComplete, initPc, aiEngineReady, rlEngineReady,
                       hmmEngineReady, currentRegime, signals, lastSignal,
                       signalHistory, totalSignals, winningSignals, losingSignals,
                       genCalls, stored>>
      ELSE \E isWin \in {IsWin(sig, lastPrice)} :
           \E ai \in {addTrainingSample(SignalIndicators(sig), sig.action, isWin,
                                        trainingData, signalCount, isModelReady,
                                        retrains)} :
           \E rl \in {updateQValue(qTable, totalUpdates, rewardHistory, sig.regime,
                                   sig.action, IF isWin THEN 1 ELSE -1,
                                   currentRegime)} :
           \E afterAI \in {IF aiEngineReady
                           THEN saveTrainingData(stored, ai.trainingData,
                                                 ai.signalCount)
                           ELSE stored} :
           \E afterRL \in {IF rlEngineReady /\ rl.saved
                           THEN saveQTable(afterAI, rl.qTable) ELSE afterAI} :
             /\ signals' = [signals EXCEPT ![id].result =
                                               IF isWin THEN "WIN" ELSE "LOSS"]
             /\ winningSignals' = IF isWin THEN winningSignals + 1 ELSE winningSignals
             /\ losingSignals' = IF isWin THEN losingSignals ELSE losingSignals + 1
             /\ IF aiEngineReady
                THEN /\ trainingData' = ai.trainingData
                     /\ signalCount' = ai.signalCount
                     /\ retrains' = ai.retrains
                ELSE UNCHANGED <<trainingData, signalCount, retrains>>
             /\ IF rlEngineReady
                THEN /\ qTable' = rl.qTable
                     /\ totalUpdates' = rl.totalUpdates
                     /\ rewardHistory' = rl.rewardHistory
                ELSE UNCHANGED <<qTable, totalUpdates, rewardHistory>>
             /\ IF hmmEngineReady /\ MatrixUpdateDue(totalSignals)
                THEN /\ transitionMatrix' =
                          updateTransitionMatrix(stateHistory, transitionMatrix)
                     /\ matrixUpdates' =
                          IF Len(stateHistory) < MIN_HISTORY_FOR_UPDATE
                          THEN matrixUpdates ELSE matrixUpdates + 1
                ELSE UNCHANGED <<transitionMatrix, matrixUpdates>>
             /\ stored' = saveSettings(afterRL, totalSignals,
                                       IF isWin THEN winningSignals + 1
                                       ELSE winningSignals,
                                       IF isWin THEN losingSignals
                                       ELSE losingSignals + 1,
                                       signalHistory)
             /\ UNCHANGED <<envVars, currentState, stateHistory, regimeInfo,
                            isModelReady, candles, lastPrice, warmupComplete,
                            initPc, aiEngineReady, rlEngineReady, hmmEngineReady,
                            currentRegime, lastSignal, signalHistory, totalSignals,
                            genCalls>>

\* the callback scheduleSignalResultCheck registered for signal id fires
FireTimer(id) ==
  /\ NoPendingContinuation
  /\ id \in DOMAIN timers
  /\ timers[id] > 0
  /\ timers' = [timers EXCEPT ![id] = timers[id] - 1]
  /\ checkSignalResult(id)
  /\ UNCHANGED <<lastCall, backtestResults>>

\* checkSignalResult called once more on a signal that already has its result
CheckAgain(id) ==
  /\ NoPendingContinuation
  /\ id \in DOMAIN signals
  /\ signals[id].result # "null"
  /\ UNCHANGED <<timers, lastCall, backtestResults>>
  /\ checkSignalResult(id)

\* the RESET_HISTORY handler; the three engines' reset() save what they reset
resetHistory ==
  /\ NoPendingContinuation
  /\ totalSignals' = 0
  /\ winningSignals' = 0
  /\ losingSignals' = 0
  /\ signalHistory' = <<>>
  /\ IF aiEngineReady
     THEN trainingData' = <<>> /\ signalCount' = 0
     ELSE UNCHANGED <<trainingData, signalCount>>
  /\ IF rlEngineReady
     THEN qTable' = InitialQTable /\ rewardHistory' = <<>> /\ totalUpdates' = 0
     ELSE UNCHANGED <<qTable, rewardHistory, totalUpdates>>
  /\ IF hmmEngineReady
     THEN currentState' = STATES.RANGING /\ stateHistory' = <<>>
     ELSE UNCHANGED <<currentState, stateHistory>>
  /\ stored' =
       LET afterAI == IF aiEngineReady THEN saveTrainingData(stored, <<>>, 0)
                      ELSE stored
           afterRL == IF rlEngineReady THEN saveQTable(afterAI, InitialQTable)
                      ELSE afterAI
       IN  IF AccessThrows(stored) THEN stored
           ELSE saveSettings(removeItems(afterRL), 0, 0, 0, <<>>)
  /\ UNCHANGED <<envVars, transitionMatrix, regimeInfo, matrixUpdates,
                 isModelReady, retrains, candles, lastPrice, warmupComplete,
                 initPc, aiEngineReady, rlEngineReady, hmmEngineReady,
                 currentRegime, signals, timers, lastSignal, genCalls>>

\* the RESET_HISTORY message
ResetHistory ==
  /\ resetHistory
  /\ UNCHANGED <<lastCall, backtestResults>>

----------------------------------------------------------------------------
(* The content script running from page load                                *)

\* a quiet range, then a close at the period's high (williamsR is 0)
MarketCalm == Obs(Num(10, 1), Num(8, 1000), Num(1, 1))

MarketAtHigh ==
  Market(Num(70, 1), Num(40, 1), Num(8, 1000), Num(1, 1), Num(0, 1), Num(120, 1),
         Num(1, 1), <<>>, NoLevel, NoLevel)

MarketScripts == { <<MarketCalm, MarketAtHigh>> }

Prices == {1, 2}

\* the network's answers: ai-engine.js multiplies a 5-vector by a 5x16 matrix
\* row by row, so every output is NaN and the action SELL; the TensorFlow
\* build (part_001) answers with a softmax maximum
MainPredictions == {Prediction("SELL", NaN), Prediction("BUY", Num(70, 1))}

MainDraws == {Draw(FALSE, "BUY", 0, 1)}

EnginesInit ==
  /\ currentState = STATES.RANGING
  /\ stateHistory = <<>>
  /\ transitionMatrix = DefaultTransitionMatrix
  /\ regimeInfo = NoRegimeInfo
  /\ matrixUpdates = 0
  /\ isModelReady = FALSE
  /\ trainingData = <<>>
  /\ signalCount = 0
  /\ retrains = 0
  /\ qTable = InitialQTable
  /\ totalUpdates = 0
  /\ rewardHistory = <<>>

ScriptStateInit ==
  /\ candles = 0
  /\ lastPrice = 0
  /\ warmupComplete = FALSE
  /\ initPc = "idle"
  /\ aiEngineReady = FALSE
  /\ rlEngineReady = FALSE
  /\ hmmEngineReady = FALSE
  /\ currentRegime = "RANGING"
  /\ signals = <<>>
  /\ timers = <<>>
  /\ lastSignal = 0
  /\ signalHistory = <<>>
  /\ totalSignals = 0
  /\ winningSignals = 0
  /\ losingSignals = 0
  /\ genCalls = 0
  /\ stored = EmptyStorage

ScriptInit ==
  /\ ScriptStateInit
  /\ lastCall = NoCall
  /\ backtestResults = <<>>

Init ==
  /\ \E script \in MarketScripts : market = Head(script) /\ feed = Tail(script)
  /\ EnginesInit
  /\ ScriptInit

Next ==
  \/ \E price \in Prices, isNew \in BOOLEAN : PushTick(price, isNew, TRUE)
  \/ FinishInitializeAIEngines
  \/ \E out \in MainPredictions, rnd \in MainDraws : GenerateSignal(out, rnd)
  \/ \E id \in 1..MaxGenerate : FireTimer(id)
  \/ \E id \in 1..MaxGenerate : CheckAgain(id)
  \/ ResetHistory

Spec == Init /\ [][Next]_vars

\* the same, with the event loop eventually running the pending continuation
\* of initializeAIEngines and every pending callback
FairSpec ==
  /\ Spec
  /\ WF_vars(FinishInitializeAIEngines)
  /\ \A id \in 1..MaxGenerate : WF_vars(FireTimer(id))

----------------------------------------------------------------------------
(* The classifier on its own: detectRegime and updateTransitionMatrix       *)
(* called in any order on a stream of observations                          *)

MaxClassify == 21

MaxMatrixUpdates == 1

ObsTrend == Obs(Num(30, 1), Num(8, 1000), Num(1, 1))

ObsRange == Obs(Num(10, 1), Num(8, 1000), Num(1, 1))

\* adx = 250/9 makes the TRENDING and RANGING posteriors equal from RANGING
ObsTie == Obs(Num(250, 9), Num(8, 1000), Num(1, 1))

ObsNegative == Obs(Num(-5, 1), Num(8, 1000), Num(1, 1))

ObsZeroAdx == Obs(Num(0, 1), Num(8, 1000), Num(1, 1))

ObsNaNAtr == Obs(Num(30, 1), NaN, Num(1, 1))

ObsNoPrice == Obs(Num(30, 1), Num(8, 1000), Undefined)

HMMObservations ==
  {ObsTrend, ObsRange, ObsTie, ObsNegative, ObsZeroAdx, ObsNaNAtr, ObsNoPrice}

FeedScripts ==
  {<<>>} \cup {<<o>> : o \in HMMObservations}
         \cup {<<ObsRange, ObsTrend>>, <<ObsTrend, ObsRange>>, <<ObsTie, ObsNegative>>}

HMMInit ==
  /\ market \in HMMObservations
  /\ feed \in FeedScripts
  /\ EnginesInit
  /\ ScriptInit

\* the caller moves on to the next observation
Observe ==
  /\ feed # <<>>
  /\ market' = Head(feed)
  /\ feed' = Tail(feed)
  /\ UNCHANGED <<hmmVars, aiVars, rlVars, csVars, lastCall, backtestResults>>

\* HMMEngine.detectRegime(market)
DetectRegime ==
  /\ Len(stateHistory) < MaxClassify
  /\ LET r == detectRegime(market, currentState, stateHistory, transitionMatrix)
     IN  /\ currentState' = r.currentState
         /\ stateHistory' = r.stateHistory
         /\ regimeInfo' = r.result
  /\ UNCHANGED <<transitionMatrix, matrixUpdates, envVars, aiVars, rlVars, csVars,
                 lastCall, backtestResults>>

\* HMMEngine.updateTransitionMatrix()
UpdateTransitionMatrix ==
  /\ matrixUpdates < MaxMatrixUpdates
  /\ transitionMatrix' = updateTransitionMatrix(stateHistory, transitionMatrix)
  /\ matrixUpdates' = IF Len(stateHistory) < MIN_HISTORY_FOR_UPDATE
                      THEN matrixUpdates ELSE matrixUpdates + 1
  /\ UNCHANGED <<currentState, stateHistory, regimeInfo, envVars, aiVars, rlVars,
                 csVars, lastCall, backtestResults>>

HMMNext == Observe \/ DetectRegime \/ UpdateTransitionMatrix

SpecHMM == HMMInit /\ [][HMMNext]_vars

----------------------------------------------------------------------------
(* Fusion on its own: one generateSignal run after the warmup, over a wide  *)
(* range of indicator values, engine states, learned Q-tables, network      *)
(* answers and random draws                                                 *)

\* the chart patterns analyzeAllPatterns can report together
FusionPatterns ==
  { <<>>,
    <<Pattern("BULLISH", Num(3, 4)), Pattern("BULLISH", Num(13, 20)),
      Pattern("BULLISH", Num(7, 10))>>,
    <<Pattern("BEARISH", Num(3, 4)), Pattern("NEUTRAL", Num(11, 20)),
      Pattern("BEARISH", Num(7, 10))>> }

FusionLevels == { <<NoLevel, NoLevel>>, <<Level(Num(1, 1)), Level(Num(3, 10))>> }

FusionMarkets ==
  { Market(rsi, adx, atr, Num(1, 1), wr, Num(10, 1), vc, ps, lv[1], lv[2]) :
      rsi \in {Num(30, 1), Num(50, 1), Num(70, 1)},
      adx \in {Num(0, 1), Num(10, 1), Num(40, 1)},
      atr \in {Num(8, 1000), Num(2, 100)},
      wr  \in {Num(-50, 1), Num(0, 1)},
      vc  \in {Num(0, 1), Num(1, 1), Num(2, 1)},
      ps  \in FusionPatterns,
      lv  \in FusionLevels }

\* the Q-table after two wins, after three wins and after one loss of BUY
LearnedQ(b) == [InitialQTable EXCEPT !.RANGING.BUY = b, !.TRENDING.BUY = b]

FusionQTables == {InitialQTable, LearnedQ(689050), LearnedQ(782160), LearnedQ(395000)}

\* initializeAIEngines still pending; finished; finished without a predictor
EngineStates ==
  { [pc |-> "awaiting", model |-> TRUE,  ai |-> FALSE, rl |-> FALSE, hmm |-> FALSE],
    [pc |-> "done",     model |-> TRUE,  ai |-> TRUE,  rl |-> TRUE,  hmm |-> TRUE],
    [pc |-> "done",     model |-> FALSE, ai |-> FALSE, rl |-> TRUE,  hmm |-> TRUE] }

FusionPredictions ==
  { Prediction("SELL", NaN), Prediction("BUY", Num(50, 1)),
    Prediction("SELL", Num(100, 1)), Prediction("BUY", Num(777, 10)) }

FusionDraws ==
  { Draw(FALSE, "BUY", 0, 1), Draw(FALSE, "SELL", 9, 2),
    Draw(TRUE, "BUY", 9, 1), Draw(TRUE, "SELL", 0, 2) }

FusionInit ==
  /\ market \in FusionMarkets
  /\ feed = <<>>
  /\ currentState = STATES.RANGING
  /\ stateHistory = <<>>
  /\ transitionMatrix = DefaultTransitionMatrix
  /\ regimeInfo = NoRegimeInfo
  /\ matrixUpdates = 0
  /\ trainingData = <<>>
  /\ signalCount = 0
  /\ retrains = 0
  /\ qTable \in FusionQTables
  /\ totalUpdates = 0
  /\ rewardHistory = <<>>
  /\ candles = WARMUP_CANDLES
  /\ lastPrice = 1
  /\ warmupComplete = TRUE
  /\ \E e \in EngineStates :
       /\ initPc = e.pc
       /\ isModelReady = e.model
       /\ aiEngineReady = e.ai
       /\ rlEngineReady = e.rl
       /\ hmmEngineReady = e.hmm
  /\ currentRegime = "RANGING"
  /\ signals = <<>>
  /\ timers = <<>>
  /\ lastSignal = 0
  /\ signalHistory = <<>>
  /\ totalSignals = 0
  /\ winningSignals = 0
  /\ losingSignals = 0
  /\ genCalls = 0
  /\ stored = [EmptyStorage EXCEPT !.hasQTable = TRUE, !.qTable = qTable]
  /\ lastCall = NoCall
  /\ backtestResults = <<>>

\* the first generateSignal run of the scheduler
GenerateFirstSignal(out, rnd) ==
  /\ lastSignal = 0
  /\ generateSignal(out, rnd)
  /\ UNCHANGED <<lastCall, backtestResults>>

FusionNext ==
  \E out \in FusionPredictions, rnd \in FusionDraws : GenerateFirstSignal(out, rnd)

SpecFusion == FusionInit /\ [][FusionNext]_vars

----------------------------------------------------------------------------
(* The three learning buffers filled past their capacities: rounds of one   *)
(* classification followed by the learning step of one resolved signal      *)

MaxRingRounds == 502

\* the observation of round k, the signal's action and its outcome
RingObservation(k) == IF k % 3 = 0 THEN ObsTrend ELSE ObsRange

RingAction(k) == IF k % 2 = 0 THEN "BUY" ELSE "SELL"

RingWin(k) == k % 3 # 0

RingIndicators(m) ==
  [rsi |-> m.rsi, adx |-> m.adx, atr |-> RDiv(m.atr, m.avgPrice),
   williamsR |-> m.williamsR, cci |-> m.cci]

RingInit ==
  /\ market \in {ObsTrend, ObsRange}
  /\ feed = <<>>
  /\ currentState = STATES.RANGING
  /\ stateHistory = <<>>
  /\ transitionMatrix = DefaultTransitionMatrix
  /\ regimeInfo = NoRegimeInfo
  /\ matrixUpdates = 0
  /\ isModelReady = TRUE
  /\ trainingData = <<>>
  /\ signalCount = 0
  /\ retrains = 0
  /\ qTable = InitialQTable
  /\ totalUpdates = 0
  /\ rewardHistory = <<>>
  /\ ScriptInit

\* HMMEngine.detectRegime on the round's observation
RingClassify ==
  /\ genCalls < MaxRingRounds
  /\ totalUpdates = genCalls
  /\ \E r \in {detectRegime(market, currentState, stateHistory, transitionMatrix)} :
       /\ currentState' = r.currentState
       /\ stateHistory' = r.stateHistory
       /\ regimeInfo' = r.result
  /\ genCalls' = genCalls + 1
  /\ UNCHANGED <<envVars, transitionMatrix, matrixUpdates, aiVars, rlVars, candles,
                 lastPrice, warmupComplete, initPc, aiEngineReady, rlEngineReady,
                 hmmEngineReady, currentRegime, signals, timers, lastSignal,
                 signalHistory, totalSignals, winningSignals, losingSignals, stored,
                 lastCall, backtestResults>>

\* AIEngine.addTrainingSample and RLEngine.updateQValue for the round's signal,
\* as checkSignalResult calls them; then the next round's observation arrives
RingLearn ==
  /\ totalUpdates < genCalls
  /\ \E ai \in {addTrainingSample(RingIndicators(market), RingAction(genCalls),
                                  RingWin(genCalls), trainingData, signalCount,
                                  isModelReady, retrains)} :
       /\ trainingData' = ai.trainingData
       /\ signalCount' = ai.signalCount
       /\ retrains' = ai.retrains
       /\ UNCHANGED backtestResults
       /\ lastCall' = [op     |-> "addTrainingSample",
                       args   |-> [action |-> RingAction(genCalls),
                                   wasWin |-> RingWin(genCalls)],
                       result |-> ai.training,
                       threw  |-> FALSE]
       /\ \E rl \in {updateQValue(qTable, totalUpdates, rewardHistory,
                                  STATE_NAMES[currentState], RingAction(genCalls),
                                  IF RingWin(genCalls) THEN 1 ELSE -1,
                                  STATE_NAMES[currentState])} :
            /\ qTable' = rl.qTable
            /\ totalUpdates' = rl.totalUpdates
            /\ rewardHistory' = rl.rewardHistory
            /\ stored' = saveQTable(
                            saveTrainingData(stored, ai.trainingData, ai.signalCount),
                            rl.qTable)
  /\ market' = RingObservation(genCalls)
  /\ UNCHANGED <<feed, hmmVars, isModelReady, candles, lastPrice, warmupComplete,
                 initPc, aiEngineReady, rlEngineReady, hmmEngineReady, currentRegime,
                 signals, timers, lastSignal, signalHistory, totalSignals,
                 winningSignals, losingSignals, genCalls>>

RingNext == RingClassify \/ RingLearn

SpecRing == RingInit /\ [][RingNext]_vars

----------------------------------------------------------------------------
(* Properties of the content script (Spec, FairSpec)                        *)

Resolved(sig) == sig.result \in {"WIN", "LOSS"}

\* C1: a signal's result changes at most once, from null to WIN or LOSS, and
\* never afterwards; a call of checkSignalResult on a signal that already has
\* its result leaves the signals, the win and loss counters, the training
\* buffer and the Q-table unchanged.
C1_ResultSetOnce ==
  [][\A id \in DOMAIN signals :
       /\ signals'[id].result # signals[id].result
            => signals[id].result = "null" /\ Resolved(signals'[id])
       /\ signals[id].result # "null" => signals'[id] = signals[id]
       /\ (signals[id].result # "null" /\ checkSignalResult(id))
            => UNCHANGED <<signals, winningSignals, losingSignals, trainingData,
                           qTable>>]_vars

\* a resolved signal whose outcome has been counted and learnt from
C1_Witness ==
  \E id \in DOMAIN signals :
    /\ Resolved(signals[id])
    /\ winningSignals + losingSignals >= 1
    /\ trainingData # <<>>
    /\ totalUpdates >= 1

\* C3: once the warmup is complete every generateSignal run emits exactly one
\* signal, whatever its confidence: it becomes lastSignal, heads the signal
\* history, raises totalSignals by one and is published.
C3_AlwaysEmits ==
  [][(warmupComplete /\ genCalls' = genCalls + 1)
       => /\ Len(signals') = Len(signals) + 1
          /\ SubSeq(signals', 1, Len(signals)) = signals
          /\ lastSignal' = Len(signals')
          /\ signals'[lastSignal'].result = "null"
          /\ signalHistory' = <<lastSignal'>> \o signalHistory
          /\ totalSignals' = totalSignals + 1
          /\ stored'.hasFeed
          /\ stored'.feed.timestamp = signals'[lastSignal'].timestamp
          /\ stored'.feed.action = signals'[lastSignal'].action
          /\ stored'.feed.confidence = signals'[lastSignal'].confidence]_vars

\* a signal of confidence below 50 that was emitted and published
C3_Witness ==
  /\ lastSignal > 0
  /\ signals[lastSignal].confidence.n < 50
  /\ signalHistory # <<>>
  /\ Head(signalHistory) = lastSignal
  /\ stored.hasFeed
  /\ stored.feed.timestamp = lastSignal
  /\ totalSignals >= 1

\* williamsR, cci, rsi or atr is 0 or missing: analyzeIndicators returns null
NoAnalysis(m) ==
  \E x \in {m.rsi, m.atr, m.williamsR, m.cci} : x.k # "num" \/ x.n = 0

\* C4 as stated: when the warmup is not complete, or a core indicator is
\* unavailable so that analyzeIndicators yields no analysis, generateSignal
\* emits nothing: the signal history, totalSignals, the published feed and the
\* scheduled callbacks are unchanged.
C4_NoSignalWithoutData ==
  [][(genCalls' = genCalls + 1 /\ (~warmupComplete \/ NoAnalysis(market)))
       => UNCHANGED <<signalHistory, totalSignals, stored, timers>>]_vars

\* C4, amended: generateSignal emits nothing only while the warmup is not
\* complete; after the warmup, when analyzeIndicators yields no analysis, it
\* emits a fallback signal (isFallback, three minutes, confidence 45 to 54,
\* BUY when the RSI is below 50 and SELL otherwise), schedules its callback and
\* publishes it.
C4_FallbackAfterWarmup ==
  [][genCalls' = genCalls + 1
       => IF ~warmupComplete
          THEN UNCHANGED <<signals, signalHistory, totalSignals, stored, timers,
                           lastSignal>>
          ELSE NoAnalysis(market)
                 => /\ Len(signals') = Len(signals) + 1
                    /\ signals'[Len(signals')].isFallback
                    /\ signals'[Len(signals')].duration = 3
                    /\ signals'[Len(signals')].confidence.k = "num"
                    /\ signals'[Len(signals')].confidence.d = 1
                    /\ signals'[Len(signals')].confidence.n \in 45..54
                    /\ signals'[Len(signals')].action
                         = IF market.rsi.k = "num" /\ market.rsi.n # 0
                              /\ market.rsi.n < 50 * market.rsi.d
                           THEN "BUY" ELSE "SELL"
                    /\ signalHistory' = <<Len(signals')>> \o signalHistory
                    /\ totalSignals' = totalSignals + 1
                    /\ timers' = Append(timers, 1)
                    /\ stored'.hasFeed
                    /\ stored'.feed.timestamp = Len(signals')]_vars

\* a fallback signal emitted after the warmup for a market without analysis
C4_Witness ==
  /\ warmupComplete
  /\ lastSignal > 0
  /\ signals[lastSignal].isFallback
  /\ NoAnalysis(market)
  /\ stored.feed.timestamp = lastSignal
  /\ stored.feed.isFallback

\* C5: every emitted signal has exactly one callback, pending as long as the
\* signal has no result; a callback goes away only by firing, which sets the
\* result to WIN or LOSS; and every emitted signal eventually has its result.
C5_CallbackResolves ==
  /\ [](/\ Len(timers) = Len(signals)
        /\ \A id \in DOMAIN signals :
             timers[id] = IF signals[id].result = "null" THEN 1 ELSE 0)
  /\ [][\A id \in DOMAIN timers :
          timers'[id] # timers[id]
            => timers[id] = 1 /\ timers'[id] = 0 /\ Resolved(signals'[id])]_vars
  /\ \A id \in 1..MaxGenerate :
       (Len(signals) >= id) ~> (Len(signals) >= id /\ Resolved(signals[id]))

\* a signal resolved by its callback after a reset had emptied the history
C5_Witness ==
  \E id \in DOMAIN signals :
    /\ Resolved(signals[id])
    /\ timers[id] = 0
    /\ signalHistory = <<>>
    /\ winningSignals + losingSignals = 1
    /\ totalSignals = 0

----------------------------------------------------------------------------
(* Properties of fusion (SpecFusion)                                        *)

\* C2: every emitted signal, on every path, has action BUY or SELL and an
\* integer confidence between 30 and 95.
C2_ConfidenceInRange ==
  \A id \in DOMAIN signals :
    /\ signals[id].action \in {"BUY", "SELL"}
    /\ signals[id].confidence.k = "num"
    /\ signals[id].confidence.d = 1
    /\ signals[id].confidence.n >= 30
    /\ signals[id].confidence.n <= 95

\* a predictor-based signal with three agreeing patterns, clamped to 95
C2_Witness ==
  /\ lastSignal > 0
  /\ aiEngineReady
  /\ ~signals[lastSignal].isFallback
  /\ signals[lastSignal].confidence = Num(95, 1)
  /\ Len(market.patterns) = 3

----------------------------------------------------------------------------
(* Properties of the learning buffers (SpecRing)                            *)

\* the buffer after e was appended to old under capacity cap, oldest out first
KeepNewest(old, e, cap) ==
  IF Len(old) < cap THEN Append(old, e) ELSE Append(Tail(old), e)

\* C6: the training buffer holds at most 500 samples, the reward history at
\* most 500 events and the regime history at most 100 entries; an append to a
\* full buffer removes the oldest entry and keeps the new one.
C6_RingBuffers ==
  /\ [](/\ Len(trainingData) <= 500
        /\ Len(rewardHistory) <= 500
        /\ Len(stateHistory) <= 100)
  /\ [][/\ signalCount' # signalCount
             => /\ trainingData' # <<>>
                /\ trainingData'[Len(trainingData')].label
                     = SampleLabel(RingAction(genCalls), RingWin(genCalls))
                /\ trainingData'
                     = KeepNewest(trainingData, trainingData'[Len(trainingData')], 500)
        /\ totalUpdates' # totalUpdates
             => /\ rewardHistory' # <<>>
                /\ rewardHistory'[Len(rewardHistory')].oldQ
                     = qTable[STATE_NAMES[currentState]][RingAction(genCalls)]
                /\ rewardHistory'[Len(rewardHistory')].newQ
                     = qTable'[STATE_NAMES[currentState]][RingAction(genCalls)]
                /\ rewardHistory'
                     = KeepNewest(rewardHistory, rewardHistory'[Len(rewardHistory')], 500)
        /\ genCalls' # genCalls
             => /\ stateHistory' # <<>>
                /\ stateHistory'[Len(stateHistory')].state = currentState'
                /\ stateHistory'[Len(stateHistory')].adx = market.adx
                /\ stateHistory'
                     = KeepNewest(stateHistory, stateHistory'[Len(stateHistory')], 100)
       ]_vars

\* all three buffers full after more appends than they hold
C6_Witness ==
  /\ Len(trainingData) = 500
  /\ signalCount > 500
  /\ Len(rewardHistory) = 500
  /\ totalUpdates > 500
  /\ Len(stateHistory) = 100
  /\ genCalls > 500

----------------------------------------------------------------------------
(* Properties of the classifier (SpecHMM)                                   *)

NonPositive(x) == x.k # "num" \/ x.n <= 0

\* C8: detectRegime called with adx, atr or avgPrice missing or non-positive
\* returns the held state with uniform probabilities and confidence 50 and
\* leaves the current state and the history unchanged.
C8_SoftFailOnNonPositive ==
  [][(DetectRegime /\ (NonPositive(market.adx) \/ NonPositive(market.atr)
                       \/ NonPositive(market.avgPrice)))
       => /\ currentState' = currentState
          /\ stateHistory' = stateHistory
          /\ regimeInfo'.state = currentState
          /\ regimeInfo'.stateProbs = Uniform4
          /\ regimeInfo'.confidence = Num(50, 1)]_vars

\* the scenario of C9: {adx: 30, atr: 0.008, avgPrice: 1.0}, from RANGING with
\* the default matrix
TrendScenario ==
  /\ market.adx = Num(30, 1)
  /\ market.atr = Num(8, 1000)
  /\ market.avgPrice = Num(1, 1)
  /\ currentState = STATES.RANGING
  /\ transitionMatrix = DefaultTransitionMatrix

\* C9 as stated: the scenario classifies to TRENDING with confidence above 50.
C9_TrendingAbove50 ==
  [][(DetectRegime /\ TrendScenario)
       => /\ currentState' = STATES.TRENDING
          /\ regimeInfo'.confidence.n > 50 * regimeInfo'.confidence.d]_vars

\* C9, amended: the scenario classifies to TRENDING with confidence
\* 8100/169 (47.93), the largest of the four posteriors but below 50.
C9_TrendingAt48 ==
  [][(DetectRegime /\ TrendScenario)
       => /\ currentState' = STATES.TRENDING
          /\ regimeInfo'.stateName = "TRENDING"
          /\ regimeInfo'.previousState = "RANGING"
          /\ regimeInfo'.confidence = Num(8100, 169)
          /\ regimeInfo'.stateProbs
               = <<Num(81, 169), Num(75, 169), Num(12, 169), Num(1, 169)>>]_vars

\* the scenario classified from the initial state
C9_Witness ==
  /\ market.adx = Num(30, 1)
  /\ Len(stateHistory) = 1
  /\ transitionMatrix = DefaultTransitionMatrix
  /\ regimeInfo.previousState = "RANGING"
  /\ regimeInfo.state = STATES.TRENDING
  /\ regimeInfo.confidence = Num(8100, 169)

\* the states of maximal posterior probability
MaxPosterior(probs) ==
  {i \in 1..4 : \A j \in 1..4 : probs[j].n * probs[i].d <= probs[i].n * probs[j].d}

\* C10: detectRegime moves to a state of maximal posterior probability and
\* keeps the current state whenever the current state is one of them.
C10_ArgmaxKeepsCurrent ==
  [][(DetectRegime /\ ~NonPositive(market.adx) /\ ~NonPositive(market.atr)
                   /\ ~NonPositive(market.avgPrice))
       => \E probs \in {DivBySum([j \in 1..4 |->
                           RMul(calculateEmissionProbabilities(
                                  market.adx, RDiv(market.atr, market.avgPrice))[j],
                                transitionMatrix[currentState][j])])} :
            /\ currentState' \in MaxPosterior(probs)
            /\ currentState \in MaxPosterior(probs) => currentState' = currentState
     ]_vars

----------------------------------------------------------------------------
(* Repeated classification (SpecHMM)                                        *)

\* the classifier is about to be called with the valid observation of its
\* previous call, and the matrix is the one that call used
SameObservationAgain ==
  /\ ~InvalidObservation(market)
  /\ stateHistory # <<>>
  /\ regimeInfo.previousState # "undefined"
  /\ stateHistory[Len(stateHistory)].adx = market.adx
  /\ stateHistory[Len(stateHistory)].atrRatio = RDiv(market.atr, market.avgPrice)
  /\ stateHistory[Len(stateHistory)].probs = regimeInfo.stateProbs
  /\ regimeInfo.stateProbs
       = PosteriorProbs(market, STATES[regimeInfo.previousState], transitionMatrix)

\* C11 as stated: two consecutive detectRegime calls with the same valid
\* observation and no matrix update in between return the same state, the
\* same confidence and the same probability vector.
C11_Idempotent ==
  [][(DetectRegime /\ SameObservationAgain)
       => /\ regimeInfo'.state = regimeInfo.state
          /\ regimeInfo'.confidence = regimeInfo.confidence
          /\ regimeInfo'.stateProbs = regimeInfo.stateProbs]_vars

\* C11, amended: the second call starts from the state the first one returned.
\* It returns the same state, confidence and probability vector when the first
\* call kept the state it started from; after a change of state the output can
\* differ: {adx: 30, atr: 0.008, avgPrice: 1.0} from RANGING gives TRENDING
\* with confidence 8100/169 and then, from TRENDING, TRENDING with 12600/137.
C11_RepeatFromReturnedState ==
  [][(DetectRegime /\ SameObservationAgain)
       => /\ regimeInfo'.previousState = regimeInfo.stateName
          /\ regimeInfo.previousState = regimeInfo.stateName
               => /\ regimeInfo'.state = regimeInfo.state
                  /\ regimeInfo'.confidence = regimeInfo.confidence
                  /\ regimeInfo'.stateProbs = regimeInfo.stateProbs
          /\ (/\ market = ObsTrend
              /\ regimeInfo.previousState = "RANGING"
              /\ transitionMatrix = DefaultTransitionMatrix)
               => /\ regimeInfo.confidence = Num(8100, 169)
                  /\ regimeInfo'.state = STATES.TRENDING
                  /\ regimeInfo'.confidence = Num(12600, 137)]_vars

\* the same observation classified twice in a row, the first call having
\* changed the state
C11_Witness ==
  /\ Len(stateHistory) = 2
  /\ market = ObsTrend
  /\ stateHistory[1].adx = stateHistory[2].adx
  /\ stateHistory[1].atrRatio = stateHistory[2].atrRatio
  /\ stateHistory[1].confidence = Num(8100, 169)
  /\ stateHistory[2].confidence = Num(12600, 137)
  /\ regimeInfo.previousState = "TRENDING"
  /\ regimeInfo.state = STATES.TRENDING

----------------------------------------------------------------------------
(* RLEngine called directly (SpecRL)                                        *)

MaxUpdates == 3

\* regime arguments: two keys of the Q-table and a name that is no key
PolicyRegimes == {"TRENDING", "SIDEWAYS"}

NextRegimes == {"TRENDING", "RANGING", "SIDEWAYS"}

PredictorActions == {"BUY", "SELL", "null"}

Rewards == {1, -1}

RLInit ==
  /\ market = MarketCalm
  /\ feed = <<>>
  /\ EnginesInit
  /\ ScriptInit

\* RLEngine.selectAction(regime, aiAction)
SelectAction(regime, aiAction, explore, coin) ==
  /\ UNCHANGED backtestResults
  /\ lastCall' = [op     |-> "selectAction",
                  args   |-> [regime |-> regime, aiAction |-> aiAction,
                              explore |-> explore, coin |-> coin],
                  result |-> selectAction(qTable, regime, aiAction, explore, coin),
                  threw  |-> FALSE]
  /\ UNCHANGED <<envVars, hmmVars, aiVars, rlVars, csVars>>

\* RLEngine.updateQValue(regime, action, reward, nextRegime)
UpdateQValue(regime, action, reward, nextRegime) ==
  /\ totalUpdates < MaxUpdates
  /\ \E rl \in {updateQValue(qTable, totalUpdates, rewardHistory, regime, action,
                             reward, nextRegime)} :
       /\ qTable' = rl.qTable
       /\ totalUpdates' = rl.totalUpdates
       /\ rewardHistory' = rl.rewardHistory
       /\ stored' = IF rl.saved THEN saveQTable(stored, rl.qTable) ELSE stored
  /\ UNCHANGED backtestResults
  /\ lastCall' = [op     |-> "updateQValue",
                  args   |-> [regime |-> regime, action |-> action,
                              reward |-> reward, nextRegime |-> nextRegime],
                  result |-> "undefined",
                  threw  |-> FALSE]
  /\ UNCHANGED <<envVars, hmmVars, aiVars, candles, lastPrice, warmupComplete,
                 initPc, aiEngineReady, rlEngineReady, hmmEngineReady, currentRegime,
                 signals, timers, lastSignal, signalHistory, totalSignals,
                 winningSignals, losingSignals, genCalls>>

RLNext ==
  \/ \E regime \in PolicyRegimes, aiAction \in PredictorActions,
        explore \in BOOLEAN, coin \in ACTION_NAMES :
       SelectAction(regime, aiAction, explore, coin)
  \/ \E regime \in PolicyRegimes, action \in ACTION_NAMES, reward \in Rewards,
        nextRegime \in NextRegimes :
       UpdateQValue(regime, action, reward, nextRegime)

SpecRL == RLInit /\ [][RLNext]_vars

\* C12: outside the exploration branch selectAction answers with the
\* predictor's action (a random one if there is none) for a regime that is no
\* key of the Q-table; otherwise with the predictor's action if there is one
\* and the two Q-values differ by less than 0.1; otherwise with the action of
\* the larger Q-value.  The answer is always BUY or SELL, and the call changes
\* neither the Q-table nor the reward history.
C12_SelectAction ==
  /\ [](lastCall.op = "selectAction"
          => /\ lastCall.result \in {"BUY", "SELL"}
             /\ ~lastCall.args.explore
                  => IF lastCall.args.regime \notin DOMAIN qTable
                     THEN lastCall.args.aiAction # "null"
                            => lastCall.result = lastCall.args.aiAction
                     ELSE IF /\ lastCall.args.aiAction # "null"
                             /\ 10 * Abs(qTable[lastCall.args.regime].BUY
                                         - qTable[lastCall.args.regime].SELL) < QSCALE
                     THEN lastCall.result = lastCall.args.aiAction
                     ELSE /\ qTable[lastCall.args.regime][lastCall.result]
                               >= qTable[lastCall.args.regime].BUY
                          /\ qTable[lastCall.args.regime][lastCall.result]
                               >= qTable[lastCall.args.regime].SELL)
  /\ [][lastCall'.op = "selectAction"
          => UNCHANGED <<qTable, rewardHistory, totalUpdates, stored>>]_vars

\* the policy overruling the predictor: after two rewarded BUYs the Q-values
\* of TRENDING differ by more than 0.1 and SELL is answered with BUY
C12_Witness ==
  /\ lastCall.op = "selectAction"
  /\ ~lastCall.args.explore
  /\ lastCall.args.regime = "TRENDING"
  /\ lastCall.args.aiAction = "SELL"
  /\ lastCall.result = "BUY"
  /\ totalUpdates = 2
  /\ 10 * (qTable.TRENDING.BUY - qTable.TRENDING.SELL) > QSCALE

\* C13: updateQValue with regime or nextRegime no key of the Q-table changes
\* no Q-value, no reward event, not the update counter and not the stored
\* table, and raises nothing; with both keys present it changes only
\* Q[regime][action], to Q + 0.1 * (reward + 0.9 * max Q[nextRegime] - Q), and
\* appends exactly one reward event.
C13_UpdateQValue ==
  [][(lastCall'.op = "updateQValue"
      /\ (lastCall' # lastCall \/ totalUpdates' # totalUpdates))
       => \E a \in {lastCall'.args} :
            IF a.regime \notin DOMAIN qTable \/ a.nextRegime \notin DOMAIN qTable
            THEN /\ UNCHANGED <<qTable, rewardHistory, totalUpdates, stored>>
                 /\ ~lastCall'.threw
            ELSE \E mx \in {IF qTable[a.nextRegime].BUY > qTable[a.nextRegime].SELL
                            THEN qTable[a.nextRegime].BUY
                            ELSE qTable[a.nextRegime].SELL} :
                 \E q \in {qTable[a.regime][a.action]} :
                   /\ qTable' = [qTable EXCEPT ![a.regime][a.action] =
                        q + (2 * (a.reward * QSCALE + ((18 * mx + 10) \div 20) - q) + 10)
                              \div 20]
                   /\ Len(rewardHistory') = Len(rewardHistory) + 1
                   /\ SubSeq(rewardHistory', 1, Len(rewardHistory)) = rewardHistory
                   /\ rewardHistory'[Len(rewardHistory')].regime = a.regime
                   /\ rewardHistory'[Len(rewardHistory')].action = a.action
                   /\ rewardHistory'[Len(rewardHistory')].reward = a.reward
                   /\ totalUpdates' = totalUpdates + 1
                   /\ stored'.hasQTable /\ stored'.qTable = qTable']_vars

\* a refused update (the next regime is no key) after an accepted one
C13_Witness ==
  /\ lastCall.op = "updateQValue"
  /\ lastCall.args.regime = "TRENDING"
  /\ lastCall.args.nextRegime = "SIDEWAYS"
  /\ totalUpdates = 1
  /\ Len(rewardHistory) = 1
  /\ qTable.TRENDING.BUY = 595000
  /\ stored.hasQTable

----------------------------------------------------------------------------
(* One rewarded update repeated (SpecBellman)                               *)

MaxBellmanUpdates == 1200

\* the update the caller repeats: update(r, a, +1, r)
RepeatedUpdates ==
  { [op     |-> "updateQValue",
     args   |-> [regime |-> r, action |-> a, reward |-> 1, nextRegime |-> r],
     result |-> "undefined",
     threw  |-> FALSE] : r \in {"TRENDING", "CHAOTIC"}, a \in ACTION_NAMES }

BellmanInit ==
  /\ market = MarketCalm
  /\ feed = <<>>
  /\ EnginesInit
  /\ ScriptStateInit
  /\ lastCall \in RepeatedUpdates
  /\ backtestResults = <<>>

\* RLEngine.updateQValue(r, a, +1, r) once more
RepeatUpdate ==
  /\ totalUpdates < MaxBellmanUpdates
  /\ \E rl \in {updateQValue(qTable, totalUpdates, rewardHistory,
                             lastCall.args.regime, lastCall.args.action,
                             lastCall.args.reward, lastCall.args.nextRegime)} :
       /\ qTable' = rl.qTable
       /\ totalUpdates' = rl.totalUpdates
       /\ rewardHistory' = rl.rewardHistory
       /\ stored' = saveQTable(stored, rl.qTable)
  /\ UNCHANGED <<envVars, hmmVars, aiVars, candles, lastPrice, warmupComplete,
                 initPc, aiEngineReady, rlEngineReady, hmmEngineReady, currentRegime,
                 signals, timers, lastSignal, signalHistory, totalSignals,
                 winningSignals, losingSignals, genCalls, lastCall, backtestResults>>

BellmanNext == RepeatUpdate

SpecBellman == BellmanInit /\ [][BellmanNext]_vars

\* the Q-value the repeated update writes
RepeatedQ == qTable[lastCall.args.regime][lastCall.args.action]

----------------------------------------------------------------------------
(* The resolution chain of the fusion (SpecFusion)                          *)

\* the predictor is uninitialised or has fewer than 20 training samples
PredictorNotReady ==
  ~aiEngineReady \/ ~isModelReady \/ Len(trainingData) < 20

\* the signal generateSignal builds when analyzeIndicators gets no prediction
SignalWithoutPrediction(rnd) ==
  CHOOSE sig \in
    { SignalObject(r.analysis, market, r.currentRegime, lastPrice, Len(signals) + 1, rnd)
      : r \in {analyzeIndicators(market, warmupComplete, candles, hmmEngineReady,
                                 FALSE, rlEngineReady, FALSE, currentState,
                                 stateHistory, transitionMatrix, regimeInfo,
                                 currentRegime, qTable, NoPrediction, rnd)} } : TRUE

\* C15: when the predictor is uninitialised or has fewer than 20 training
\* samples, the signal is the one the chain builds without any predictor
\* output: policy alone from base confidence 55, else the cold-start rules.
C15_PredictorSkipped ==
  [][(genCalls' = genCalls + 1 /\ warmupComplete /\ PredictorNotReady
      /\ ~CoreIndicatorMissing(market))
       => \E rnd \in FusionDraws :
            signals'[Len(signals')] = SignalWithoutPrediction(rnd)]_vars

\* neither the predictor nor the policy is ready, and the indicators are there
ColdStart ==
  /\ ~(aiEngineReady /\ isModelReady)
  /\ ~rlEngineReady
  /\ ~CoreIndicatorMissing(market)

\* the action of the cold-start rules: BUY when oversold, else SELL when
\* overbought, else either
ColdStartActions(m) ==
  IF RLt(m.rsi, Num(35, 1)) \/ RLt(m.williamsR, Num(-80, 1))
     \/ RLt(m.cci, Num(-100, 1))
  THEN {"BUY"}
  ELSE IF RLt(Num(65, 1), m.rsi) \/ RLt(Num(-20, 1), m.williamsR)
          \/ RLt(Num(100, 1), m.cci)
  THEN {"SELL"}
  ELSE {"BUY", "SELL"}

\* C16: on a cold start the action follows the static thresholds (BUY if
\* rsi < 35 or williamsR < -80 or cci < -100, else SELL if rsi > 65 or
\* williamsR > -20 or cci > 100, else a random one), and the emitted signal
\* carries isFallback = true.
C16_ColdStartIsFallback ==
  [][(genCalls' = genCalls + 1 /\ warmupComplete /\ ColdStart)
       => /\ signals'[Len(signals')].action \in ColdStartActions(market)
          /\ signals'[Len(signals')].isFallback]_vars

----------------------------------------------------------------------------
(* The handlers over a localStorage that may refuse (SpecStorage)           *)

MaxStorageGenerate == 2

StorageModes == {"ok", "full", "denied"}

StorageMarkets ==
  { Market(Num(30, 1), Num(40, 1), Num(8, 1000), Num(1, 1), Num(-50, 1), Num(10, 1),
           Num(1, 1), <<>>, NoLevel, NoLevel),
    Market(Num(50, 1), Num(10, 1), Num(2, 100), Num(1, 1), Num(0, 1), Num(10, 1),
           Num(1, 1), <<>>, NoLevel, NoLevel) }

\* what the caller of an entry point sees
Outcome(op, threw) ==
  [op |-> op, args |-> [none |-> TRUE], result |-> "undefined", threw |-> threw]

StorageInit ==
  /\ market \in StorageMarkets
  /\ feed = <<>>
  /\ EnginesInit
  /\ candles = WARMUP_CANDLES
  /\ lastPrice = 1
  /\ warmupComplete = TRUE
  /\ initPc = "awaiting"
  /\ aiEngineReady = FALSE
  /\ rlEngineReady = FALSE
  /\ hmmEngineReady = FALSE
  /\ currentRegime = "RANGING"
  /\ signals = <<>>
  /\ timers = <<>>
  /\ lastSignal = 0
  /\ signalHistory = <<>>
  /\ totalSignals = 0
  /\ winningSignals = 0
  /\ losingSignals = 0
  /\ genCalls = 0
  /\ \E mode \in StorageModes : stored = [EmptyStorage EXCEPT !.state = mode]
  /\ lastCall = NoCall
  /\ backtestResults = <<>>

\* AIEngine.initialize() run by initializeAIEngines, up to its await
StorageInitialize(ok) ==
  /\ initPc = "awaiting"
  /\ ~isModelReady
  /\ lastCall = NoCall
  /\ isModelReady' = ok
  /\ IF ok
     THEN \E l \in {loadTrainingData(stored, trainingData, signalCount)} :
            /\ trainingData' = l.trainingData
            /\ signalCount' = l.signalCount
     ELSE UNCHANGED <<trainingData, signalCount>>
  /\ UNCHANGED backtestResults
  /\ lastCall' = Outcome("initialize", FALSE)
  /\ UNCHANGED <<envVars, hmmVars, retrains, rlVars, csVars>>

\* the price moves within the open candle
StorageTick(price) ==
  /\ PushTick(price, FALSE, TRUE)

\* the scheduler's call of generateSignal: the promise it gets is rejected
\* when publishToAutoTrader throws
StorageGenerate(out, rnd) ==
  /\ genCalls < MaxStorageGenerate
  /\ NoPendingContinuation
  /\ generateSignal(out, rnd)
  /\ UNCHANGED backtestResults
  /\ lastCall' = Outcome("generateSignal", warmupComplete /\ SetItemThrows(stored))

\* the timer's call of checkSignalResult
StorageResolve(id) ==
  /\ NoPendingContinuation
  /\ id \in DOMAIN timers
  /\ timers[id] > 0
  /\ timers' = [timers EXCEPT ![id] = timers[id] - 1]
  /\ checkSignalResult(id)
  /\ UNCHANGED backtestResults
  /\ lastCall' = Outcome("checkSignalResult", FALSE)

\* the message listener's RESET_HISTORY branch: the first removeItem throws
\* when localStorage cannot be reached
StorageReset ==
  /\ resetHistory
  /\ UNCHANGED backtestResults
  /\ lastCall' = Outcome("RESET_HISTORY", AccessThrows(stored))

StorageNext ==
  \/ \E ok \in BOOLEAN : StorageInitialize(ok)
  \/ FinishInitializeAIEngines
  \/ \E price \in Prices : StorageTick(price)
  \/ \E out \in MainPredictions, rnd \in MainDraws : StorageGenerate(out, rnd)
  \/ \E id \in 1..MaxStorageGenerate : StorageResolve(id)
  \/ StorageReset

SpecStorage == StorageInit /\ [][StorageNext]_vars

\* C17: a failure of any persistence read or write is absorbed locally: no
\* exception reaches the scheduler's generate or resolve entry points or the
\* message handler.
C17_StorageFailuresAbsorbed ==
  lastCall.op \in {"generateSignal", "checkSignalResult", "RESET_HISTORY"}
    => ~lastCall.threw

----------------------------------------------------------------------------
(* The predictor's training buffer (SpecRing)                               *)

\* the step is one addTrainingSample call of the round's learning step
AddSampleStep == lastCall'.op = "addTrainingSample" /\ genCalls' = genCalls

\* C18: retraining runs exactly when, immediately after an addSample, the
\* counter is a multiple of 50 and the buffer holds at least 20 samples; it
\* then trains for 10 epochs over the entire current buffer; no other
\* addSample triggers retraining.
C18_RetrainingTrigger ==
  [][AddSampleStep =>
       LET due == signalCount' % 50 = 0 /\ Len(trainingData') >= 20
       IN  /\ lastCall'.result.ran <=> due
           /\ retrains' = IF due THEN retrains + 1 ELSE retrains
           /\ due => /\ lastCall'.result.epochs = 10
                     /\ lastCall'.result.samples = Len(trainingData')]_vars

\* the second retraining: the 100th sample, over the 100 samples held
C18_Witness ==
  /\ lastCall.op = "addTrainingSample"
  /\ signalCount = 100
  /\ retrains = 2
  /\ lastCall.result = [ran |-> TRUE, epochs |-> 10, samples |-> 100]

\* C19: addSample(features, action, wasWin) appends exactly one sample whose
\* label is [1,0] when (BUY and won) or (SELL and lost) and [0,1] in the two
\* other cases, and increments the running sample counter by exactly one.
C19_AddSample ==
  [][AddSampleStep =>
       LET a    == lastCall'.args
           n    == Len(trainingData)
           kept == IF n < 500 THEN trainingData ELSE Tail(trainingData)
       IN  /\ signalCount' = signalCount + 1
           /\ Len(trainingData') = Len(kept) + 1
           /\ SubSeq(trainingData', 1, Len(kept)) = kept
           /\ trainingData'[Len(trainingData')].label =
                IF (a.action = "BUY" /\ a.wasWin) \/ (a.action = "SELL" /\ ~a.wasWin)
                THEN <<1, 0>> ELSE <<0, 1>>]_vars

\* a lost SELL has been added: its label is [1,0]
C19_Witness ==
  /\ lastCall.op = "addTrainingSample"
  /\ lastCall.args = [action |-> "SELL", wasWin |-> FALSE]
  /\ signalCount = Len(trainingData)
  /\ trainingData[Len(trainingData)].label = <<1, 0>>

----------------------------------------------------------------------------
(* A session that learns, ends, and is loaded again (SpecRestart)           *)

MaxRestartRounds == 21

\* loadSettings(): the statistics and the signal history afterwards
loadSettings(st, total, wins, losses, history) ==
  IF AccessThrows(st)
  THEN [total |-> total, wins |-> wins, losses |-> losses, history |-> history]
  ELSE [total   |-> IF st.hasStats THEN st.total ELSE total,
        wins    |-> IF st.hasStats THEN st.wins ELSE wins,
        losses  |-> IF st.hasStats THEN st.losses ELSE losses,
        history |-> IF st.hasHistory THEN st.history ELSE history]

\* the five learned structures as the session holds them
Learned ==
  [transitionMatrix |-> transitionMatrix, qTable |-> qTable,
   trainingData |-> trainingData, rewardHistory |-> rewardHistory,
   stateHistory |-> stateHistory]

\* the session is still the first one
FirstSession == lastCall.op \notin {"restart", "initialize"}

RestartClassify ==
  /\ FirstSession
  /\ genCalls < MaxRestartRounds
  /\ RingClassify

RestartLearn ==
  /\ FirstSession
  /\ RingLearn

\* HMMEngine.updateTransitionMatrix(), which checkSignalResult calls on every
\* MATRIX_UPDATE_PERIOD-th signal
RestartBlend ==
  /\ FirstSession
  /\ totalUpdates = genCalls
  /\ UpdateTransitionMatrix

\* the page is loaded again: every script starts from its initial values, and
\* start() reads the settings.  lastCall keeps what the session had learned.
Restart ==
  /\ FirstSession
  /\ totalUpdates = genCalls
  /\ currentState' = STATES.RANGING
  /\ stateHistory' = <<>>
  /\ transitionMatrix' = DefaultTransitionMatrix
  /\ regimeInfo' = NoRegimeInfo
  /\ matrixUpdates' = 0
  /\ isModelReady' = FALSE
  /\ trainingData' = <<>>
  /\ signalCount' = 0
  /\ retrains' = 0
  /\ qTable' = InitialQTable
  /\ totalUpdates' = 0
  /\ rewardHistory' = <<>>
  /\ candles' = 0
  /\ lastPrice' = 0
  /\ warmupComplete' = FALSE
  /\ initPc' = "idle"
  /\ aiEngineReady' = FALSE
  /\ rlEngineReady' = FALSE
  /\ hmmEngineReady' = FALSE
  /\ currentRegime' = "RANGING"
  /\ timers' = [i \in DOMAIN timers |-> 0]
  /\ lastSignal' = 0
  /\ genCalls' = 0
  /\ \E l \in {loadSettings(stored, 0, 0, 0, <<>>)} :
       /\ totalSignals' = l.total
       /\ winningSignals' = l.wins
       /\ losingSignals' = l.losses
       /\ signalHistory' = l.history
  /\ backtestResults' = <<>>
  /\ lastCall' = [op |-> "restart", args |-> Learned, result |-> "undefined",
                  threw |-> FALSE]
  /\ UNCHANGED <<envVars, signals, stored>>

\* AIEngine.initialize() and RLEngine.initialize() of the new session: the
\* training data and the Q-table are read back; HMMEngine has nothing to read
InitializeEngines ==
  /\ lastCall.op = "restart"
  /\ isModelReady' = TRUE
  /\ \E l \in {loadTrainingData(stored, trainingData, signalCount)} :
       /\ trainingData' = l.trainingData
       /\ signalCount' = l.signalCount
  /\ qTable' = loadQTable(stored, qTable)
  /\ UNCHANGED backtestResults
  /\ lastCall' = [lastCall EXCEPT !.op = "initialize"]
  /\ UNCHANGED <<envVars, hmmVars, retrains, totalUpdates, rewardHistory, csVars>>

RestartNext ==
  \/ RestartClassify
  \/ RestartLearn
  \/ RestartBlend
  \/ Restart
  \/ InitializeEngines

SpecRestart == RingInit /\ [][RestartNext]_vars

\* C20: the transition matrix, the Q-table, the training-sample ring, the
\* reward-event ring and the regime-history ring are all persisted: after a
\* save followed by a restart and load, each of the five equals its value
\* before the restart.
C20_FiveStructuresPersisted ==
  lastCall.op = "initialize" => Learned = lastCall.args

----------------------------------------------------------------------------
(* The fusion's confidence arithmetic for each regime name (SpecBoost)      *)

\* base confidences the decision chain can hand over, in percent
BaseConfidences == 0..100

\* closing indicators with neutral microstructure, no pattern and no level
BoostMarket ==
  Market(Num(50, 1), Num(30, 1), Num(8, 1000), Num(1, 1), Num(-50, 1), Num(10, 1),
         Num(1, 1), <<>>, NoLevel, NoLevel)

BoostInit ==
  /\ market = BoostMarket
  /\ feed = <<>>
  /\ EnginesInit
  /\ ScriptInit

\* analyzeIndicators() from the regime strategy on, for a regime name and the
\* base decision of the chain
ApplyRegimeStrategy(regime, action, confidence) ==
  /\ lastCall = NoCall
  /\ UNCHANGED backtestResults
  /\ lastCall' = [op     |-> "getRegimeStrategy",
                  args   |-> [regime |-> regime, action |-> action,
                              confidence |-> confidence],
                  result |-> Analysis(market, regime,
                                      [action |-> action,
                                       confidence |-> Num(confidence, 1)],
                                      Draw(FALSE, "BUY", 0, 1)).confidence,
                  threw  |-> FALSE]
  /\ UNCHANGED <<envVars, hmmVars, aiVars, rlVars, csVars>>

BoostNext ==
  \E regime \in REGIMES, action \in ACTION_NAMES, c \in BaseConfidences :
    ApplyRegimeStrategy(regime, action, c)

SpecBoost == BoostInit /\ [][BoostNext]_vars

\* the boost the fusion is to add in a regime, in percent; the CHAOTIC entry
\* is the configured one
StatedBoost(regime) ==
  CASE regime = "TRENDING" -> 15
    [] regime = "RANGING"  -> 20
    [] regime = "VOLATILE" -> -10
    [] OTHER               -> confidenceBoost(regime)

\* n clamped to 30..95
Clamped(n) == IF n < 30 THEN 30 ELSE IF n > 95 THEN 95 ELSE n

\* C21: fusion adds the regime's fixed confidence boost to the confidence
\* before clamping: +15 when the regime is TRENDING, +20 when RANGING and -10
\* when VOLATILE.
C21_RegimeBoost ==
  lastCall.op = "getRegimeStrategy"
    => lastCall.result =
         Num(Clamped(lastCall.args.confidence + StatedBoost(lastCall.args.regime)), 1)

\* ---------------------------------------------------------------------------
\* BacktestingEngine (src/unnamed/part_002)
\* ---------------------------------------------------------------------------

\* the virtual balance a backtest starts with
StartBalance == 1000

tradeSize == 10

payoutRatio == Num(85, 100)

\* an argument that may be left out: missing stands for undefined or null
NoList == [missing |-> TRUE, list |-> <<>>]

List(s) == [missing |-> FALSE, list |-> s]

\* the guard without its length test
NoSignalsMissingOnly(sigs) == sigs.missing

\* !signals || signals.length === 0
NoSignals(sigs) == sigs.missing \/ Len(sigs.list) = 0

\* an answer that carries an error field
IsError(r) == "error" \in DOMAIN r

\* the locals of runBacktest before the first signal
BacktestStart ==
  [wins |-> 0, losses |-> 0, maxDrawdown |-> Num(0, 1), peak |-> Num(0, 1),
   equity |-> Num(StartBalance, 1), equityCurve |-> <<Num(StartBalance, 1)>>,
   regimePerformance |-> [r \in REGIMES |-> [wins |-> 0, losses |-> 0]]]

\* regimePerformance[signal.regime].wins++ (or .losses++) for a known regime
Tally(perf, regime, field) ==
  IF regime \in DOMAIN perf THEN [perf EXCEPT ![regime][field] = @ + 1] ELSE perf

\* the first half of the forEach body: the trade is settled and the equity
\* pushed to the curve; a result other than WIN and LOSS moves nothing
Settle(s0, signal) ==
  CHOOSE r \in {
    IF signal.result = "WIN"
    THEN [s EXCEPT !.wins = @ + 1,
                   !.equity = RAdd(@, RMul(Num(tradeSize, 1), payoutRatio)),
                   !.equityCurve = Append(@, RAdd(s.equity, RMul(Num(tradeSize, 1), payoutRatio))),
                   !.regimePerformance = Tally(@, signal.regime, "wins")]
    ELSE IF signal.result = "LOSS"
    THEN [s EXCEPT !.losses = @ + 1,
                   !.equity = RAdd(@, Num(-tradeSize, 1)),
                   !.equityCurve = Append(@, RAdd(s.equity, Num(-tradeSize, 1))),
                   !.regimePerformance = Tally(@, signal.regime, "losses")]
    ELSE [s EXCEPT !.equityCurve = Append(@, s.equity)]
    : s \in {s0} } : TRUE

\* if (equity > peak) peak = equity
RaisePeak(s0) ==
  CHOOSE r \in { IF RLt(s.peak, s.equity) THEN [s EXCEPT !.peak = s.equity] ELSE s
                 : s \in {s0} } : TRUE

\* ((peak - equity) / peak) * 100
Drawdown(peak, equity) ==
  RMul(RDiv(RAdd(peak, RMul(Num(-1, 1), equity)), peak), Num(100, 1))

\* if (drawdown > maxDrawdown) maxDrawdown = drawdown
TrackDrawdown(s0) ==
  CHOOSE r \in { [s EXCEPT !.maxDrawdown = MathMax(@, Drawdown(s.peak, s.equity))]
                 : s \in {s0} } : TRUE

\* signals.forEach(...)
RECURSIVE Simulate(_)
Simulate(list) ==
  IF Len(list) = 0
  THEN BacktestStart
  ELSE TrackDrawdown(RaisePeak(Settle(Simulate(SubSeq(list, 1, Len(list) - 1)),
                                      list[Len(list)])))

\* w / total * 100, null for a regime without trades
RegimeWinRate(p) ==
  IF p.wins + p.losses > 0
  THEN Num(p.wins * 100, p.wins + p.losses)
  ELSE [k |-> "null", n |-> 0, d |-> 1]

\* the results object runBacktest builds after the loop
Statistics(s0, count) ==
  CHOOSE r \in {
    [totalSignals      |-> count,
     totalTrades       |-> s.wins + s.losses,
     wins              |-> s.wins,
     losses            |-> s.losses,
     winRate           |-> IF s.wins + s.losses > 0
                           THEN Num(s.wins * 100, s.wins + s.losses)
                           ELSE Num(0, 1),
     profitFactor      |-> IF s.losses > 0
                           THEN RDiv(RMul(Num(s.wins * tradeSize, 1), payoutRatio),
                                     Num(s.losses * tradeSize, 1))
                           ELSE Num(0, 1),
     netProfit         |-> RAdd(s.equity, Num(-1000, 1)),
     roi               |-> RMul(RDiv(RAdd(s.equity, Num(-1000, 1)), Num(1000, 1)),
                                Num(100, 1)),
     maxDrawdown       |-> s.maxDrawdown,
     equityCurve       |-> s.equityCurve,
     regimePerformance |-> s.regimePerformance,
     regimeWinRates    |-> [g \in REGIMES |-> RegimeWinRate(s.regimePerformance[g])],
     startBalance      |-> 1000,
     endBalance        |-> s.equity]
    : s \in {s0} } : TRUE

\* runBacktest(signals), sigs being its argument: the answer and the backtestResults it leaves behind
\* (the timestamp of a pushed entry is left out)
runBacktest(sigs, log) ==
  IF NoSignals(sigs)
  THEN [results |-> [error |-> "No signals to backtest", totalSignals |-> 0],
        backtestResults |-> log]
  ELSE CHOOSE r \in {
         [results |-> res, backtestResults |-> Append(log, [results |-> res])]
         : res \in {Statistics(Simulate(sigs.list), Len(sigs.list))} } : TRUE

\* a draw of as many entries with replacement
ShufflesResampled(list) == [1..Len(list) -> { list[i] : i \in 1..Len(list) }]

\* [...signals].sort(() => Math.random() - 0.5): the comparator answers at
\* random, so the order that comes out is any arrangement of the same elements
Shuffles(list) ==
  { [i \in 1..Len(list) |-> list[p[i]]] : p \in Permutations(1..Len(list)) }

\* average(arr)
RECURSIVE SumSeq(_)
SumSeq(arr) ==
  IF Len(arr) = 0 THEN Num(0, 1) ELSE RAdd(SumSeq(SubSeq(arr, 1, Len(arr) - 1)), arr[Len(arr)])

average(arr) == RDiv(SumSeq(arr), Num(Len(arr), 1))

\* median(arr)
median(arr) ==
  CHOOSE r \in {
    IF Len(sorted) % 2 = 0
    THEN RDiv(RAdd(sorted[Len(sorted) \div 2], sorted[Len(sorted) \div 2 + 1]), Num(2, 1))
    ELSE sorted[Len(sorted) \div 2 + 1]
    : sorted \in {SortSeq(arr, RLt)} } : TRUE

\* Math.min(...arr) and Math.max(...arr)
RECURSIVE MinOf(_)
MinOf(arr) ==
  IF Len(arr) = 1 THEN arr[1] ELSE MathMin(MinOf(SubSeq(arr, 1, Len(arr) - 1)), arr[Len(arr)])

RECURSIVE MaxOf(_)
MaxOf(arr) ==
  IF Len(arr) = 1 THEN arr[1] ELSE MathMax(MaxOf(SubSeq(arr, 1, Len(arr) - 1)), arr[Len(arr)])

\* one block of the stats object; stdDev, a square root, is left out
Summary(arr0) ==
  CHOOSE r \in { [mean |-> average(arr), median |-> median(arr),
                  min |-> MinOf(arr), max |-> MaxOf(arr)] : arr \in {arr0} } : TRUE

\* one pass of the loop of runMonteCarloSimulation: the shuffled copy is
\* backtested and four of its figures are kept
MonteCarloIteration(run0, shuffled) ==
  CHOOSE r \in {
    [results         |-> Append(run.results,
                                [winRate      |-> bt.results.winRate,
                                 roi          |-> bt.results.roi,
                                 maxDrawdown  |-> bt.results.maxDrawdown,
                                 profitFactor |-> bt.results.profitFactor]),
     backtestResults |-> bt.backtestResults]
    : run \in {run0}, bt \in {runBacktest(List(shuffled), run0.backtestResults)} } : TRUE

\* for (let i = 0; i < iterations; i++): shuffles[i] is what the i-th sort yields
RECURSIVE MonteCarloLoop(_, _, _)
MonteCarloLoop(shuffles, i, log) ==
  IF i = 0
  THEN [results |-> <<>>, backtestResults |-> log]
  ELSE MonteCarloIteration(MonteCarloLoop(shuffles, i - 1, log), shuffles[i])

\* results.filter(r => r.roi > 0).length
ProfitableSims(results) ==
  Cardinality({ i \in 1..Len(results) : RLt(Num(0, 1), results[i].roi) })

\* the stats object
MonteCarloStats(results0, iterations) ==
  CHOOSE r \in {
    [iterations        |-> iterations,
     winRate           |-> Summary([i \in 1..Len(results) |-> results[i].winRate]),
     roi               |-> Summary([i \in 1..Len(results) |-> results[i].roi]),
     maxDrawdown       |-> Summary([i \in 1..Len(results) |-> results[i].maxDrawdown]),
     profitFactor      |-> Summary([i \in 1..Len(results) |-> results[i].profitFactor]),
     profitableSims    |-> ProfitableSims(results),
     profitablePercent |-> Num(ProfitableSims(results) * 100, iterations)]
    : results \in {results0} } : TRUE

\* runMonteCarloSimulation(signals, iterations) for iterations >= 1
runMonteCarloSimulation(sigs, iterations, shuffles, log) ==
  IF NoSignals(sigs)
  THEN [results |-> [error |-> "No signals for Monte Carlo simulation"],
        backtestResults |-> log]
  ELSE CHOOSE r \in {
         [results |-> MonteCarloStats(run.results, iterations),
          backtestResults |-> run.backtestResults]
         : run \in {MonteCarloLoop(shuffles, iterations, log)} } : TRUE

\* Array.prototype.slice(start) with one argument: a negative start counts
\* from the end, and -0 is 0
slice(list, start) ==
  IF start < 0
  THEN SubSeq(list, IF Len(list) + start > 0 THEN Len(list) + start + 1 ELSE 1, Len(list))
  ELSE SubSeq(list, start + 1, Len(list))

\* runForwardTest(signals, testPeriod)
runForwardTest(sigs, testPeriod, log) ==
  IF sigs.missing \/ Len(sigs.list) < testPeriod
  THEN [results |-> [error     |-> "Insufficient signals for forward test",
                     required  |-> testPeriod,
                     available |-> IF sigs.missing THEN 0 ELSE Len(sigs.list)],
        backtestResults |-> log]
  ELSE CHOOSE r \in {
         [results |-> [testPeriod |-> testPeriod, isForwardTest |-> TRUE] @@ bt.results,
          backtestResults |-> bt.backtestResults]
         : bt \in {runBacktest(List(slice(sigs.list, -testPeriod)), log)} } : TRUE

\* the lists handed to the engine: resolved and unresolved signals of known
\* and unknown regimes
MaxSignals == 3

MaxIterations == 2

BacktestSignals ==
  { [result |-> "WIN", regime |-> "TRENDING"], [result |-> "LOSS", regime |-> "RANGING"],
    [result |-> "LOSS", regime |-> "UNKNOWN"], [result |-> "null", regime |-> "TRENDING"] }

SignalLists ==
  {NoList} \cup { List(s) : s \in UNION { [1..n -> BacktestSignals] : n \in 0..MaxSignals } }

TestPeriods == 0..MaxSignals

\* backtestResults when the call is made: a fresh page, or one backtest earlier
EarlierBacktests ==
  { <<>>, runBacktest(List(<<[result |-> "WIN", regime |-> "TRENDING"]>>), <<>>).backtestResults }

BacktestInit ==
  /\ market = BoostMarket
  /\ feed = <<>>
  /\ EnginesInit
  /\ ScriptStateInit
  /\ lastCall = NoCall
  /\ backtestResults \in EarlierBacktests

\* BacktestingEngine.runBacktest(signals)
RunBacktest(sigs) ==
  /\ lastCall = NoCall
  /\ \E r \in {runBacktest(sigs, backtestResults)} :
       /\ backtestResults' = r.backtestResults
       /\ lastCall' = [op |-> "runBacktest", args |-> [signals |-> sigs],
                       result |-> r.results, threw |-> FALSE]
  /\ UNCHANGED <<envVars, hmmVars, aiVars, rlVars, csVars>>

\* BacktestingEngine.runMonteCarloSimulation(signals, iterations)
RunMonteCarloSimulation(sigs, iterations) ==
  /\ lastCall = NoCall
  /\ \E shuffles \in [1..iterations -> Shuffles(sigs.list)] :
       \E r \in {runMonteCarloSimulation(sigs, iterations, shuffles, backtestResults)} :
         /\ backtestResults' = r.backtestResults
         /\ lastCall' = [op |-> "runMonteCarloSimulation",
                         args |-> [signals |-> sigs, iterations |-> iterations,
                                   shuffles |-> IF NoSignals(sigs) THEN <<>> ELSE shuffles],
                         result |-> r.results, threw |-> FALSE]
  /\ UNCHANGED <<envVars, hmmVars, aiVars, rlVars, csVars>>

\* BacktestingEngine.runForwardTest(signals, testPeriod)
RunForwardTest(sigs, testPeriod) ==
  /\ lastCall = NoCall
  /\ \E r \in {runForwardTest(sigs, testPeriod, backtestResults)} :
       /\ backtestResults' = r.backtestResults
       /\ lastCall' = [op |-> "runForwardTest",
                       args |-> [signals |-> sigs, testPeriod |-> testPeriod],
                       result |-> r.results, threw |-> FALSE]
  /\ UNCHANGED <<envVars, hmmVars, aiVars, rlVars, csVars>>

BacktestNext ==
  \/ \E sigs \in SignalLists : RunBacktest(sigs)
  \/ \E sigs \in SignalLists, iterations \in 1..MaxIterations :
       RunMonteCarloSimulation(sigs, iterations)
  \/ \E sigs \in SignalLists, testPeriod \in TestPeriods : RunForwardTest(sigs, testPeriod)

SpecBacktest == BacktestInit /\ [][BacktestNext]_vars

\* the number of signals a caller supplied
Supplied(sigs) == IF sigs.missing THEN 0 ELSE Len(sigs.list)

\* the last n entries of a list
LastSignals(list, n) == SubSeq(list, Len(list) - n + 1, Len(list))

\* the answer r carries every figure of the backtest answer expected
SameStatistics(r, expected) ==
  IF IsError(expected)
  THEN IsError(r)
  ELSE \A f \in DOMAIN expected : f \in DOMAIN r /\ r[f] = expected[f]

\* C22: runForwardTest answers with the insufficient-data error, carrying the
\* required and the available count, and runs no backtest whenever fewer than
\* testPeriod signals are supplied; otherwise its statistics are those of
\* runBacktest on exactly the last testPeriod signals of the list
C22_ForwardTest ==
  [][lastCall'.op = "runForwardTest"
     => \E a \in {lastCall'.args}, r \in {lastCall'.result} :
          IF Supplied(a.signals) < a.testPeriod
          THEN /\ IsError(r)
               /\ r.error = "Insufficient signals for forward test"
               /\ r.required = a.testPeriod
               /\ r.available = Supplied(a.signals)
               /\ backtestResults' = backtestResults
          ELSE SameStatistics(r, runBacktest(List(LastSignals(a.signals.list, a.testPeriod)),
                                             <<>>).results)]_vars

\* C23: runBacktest and runMonteCarloSimulation called with an empty or a
\* missing list answer with an error value, throw nothing, simulate nothing
\* (the answer carries no figure) and leave backtestResults as it was
C23_EmptyInput ==
  [][(lastCall'.op \in {"runBacktest", "runMonteCarloSimulation"}
      /\ (lastCall'.args.signals.missing \/ lastCall'.args.signals.list = <<>>))
     => /\ IsError(lastCall'.result)
        /\ ~lastCall'.threw
        /\ DOMAIN lastCall'.result \subseteq {"error", "totalSignals"}
        /\ lastCall'.op = "runBacktest" => lastCall'.result.totalSignals = 0
        /\ backtestResults' = backtestResults]_vars

C23_Witness ==
  /\ lastCall.op = "runMonteCarloSimulation"
  /\ lastCall.args.signals = List(<<>>)
  /\ IsError(lastCall.result)
  /\ Len(backtestResults) = 1

\* how often x occurs in a list
Occurrences(list, x) == Cardinality({ i \in 1..Len(list) : list[i] = x })

SameMultiset(a, b) ==
  /\ Len(a) = Len(b)
  /\ \A i \in 1..Len(a) : Occurrences(a, a[i]) = Occurrences(b, a[i])

\* C24: every iteration of runMonteCarloSimulation backtests an arrangement of
\* exactly the supplied signals (same length, same multiset), one backtest per
\* iteration, and with iterations = 1 profitablePercent is 0 or 100
C24_MonteCarloPermutes ==
  [][(lastCall'.op = "runMonteCarloSimulation" /\ ~IsError(lastCall'.result))
     => \E a \in {lastCall'.args}, r \in {lastCall'.result} :
          /\ Len(a.shuffles) = a.iterations
          /\ \A i \in 1..a.iterations : SameMultiset(a.shuffles[i], a.signals.list)
          /\ Len(backtestResults') = Len(backtestResults) + a.iterations
          /\ \A i \in 1..a.iterations :
               backtestResults'[Len(backtestResults) + i].results
                 = runBacktest(List(a.shuffles[i]), <<>>).results
          /\ a.iterations = 1 => r.profitablePercent \in {Num(0, 1), Num(100, 1)}]_vars

C24_Witness ==
  /\ lastCall.op = "runMonteCarloSimulation"
  /\ lastCall.args.iterations = 1
  /\ Len(lastCall.args.signals.list) = 3
  /\ lastCall.args.shuffles[1] # lastCall.args.signals.list
  /\ lastCall.result.profitablePercent = Num(100, 1)

\* the largest decline, in percent of the earlier point, between any point of
\* an equity curve and any later one
Declines(curve) ==
  { Drawdown(curve[p[1]], curve[p[2]]) :
      p \in { q \in (1..Len(curve)) \X (1..Len(curve)) : q[1] <= q[2] } }

LargestDecline(curve) ==
  CHOOSE d \in Declines(curve) : \A e \in Declines(curve) : RLe(e, d)

\* the first entry of a list that is a WIN or a LOSS is a LOSS
FirstResolvedIsLoss(list) ==
  \E i \in 1..Len(list) :
    /\ list[i].result = "LOSS"
    /\ \A j \in 1..(i - 1) : list[j].result \notin {"WIN", "LOSS"}

\* C25: runBacktest's maxDrawdown is the largest peak-to-trough decline, in
\* percent, over the whole equity curve, whose first point and first peak is
\* the starting balance 1000; a list whose first resolved signal is a LOSS has
\* maxDrawdown > 0
C25_MaxDrawdown ==
  (lastCall.op = "runBacktest" /\ ~IsError(lastCall.result))
    => /\ lastCall.result.equityCurve[1] = Num(StartBalance, 1)
       /\ lastCall.result.maxDrawdown = LargestDecline(lastCall.result.equityCurve)
       /\ FirstResolvedIsLoss(lastCall.args.signals.list)
            => RLt(Num(0, 1), lastCall.result.maxDrawdown)

\* C26: runBacktest, runMonteCarloSimulation and runForwardTest are pure and
\* stateless: a call leaves every variable of the BacktestingEngine module
\* unchanged, so nothing accumulates from call to call or from one Monte
\* Carlo iteration to the next
C26_Stateless ==
  [][lastCall'.op \in {"runBacktest", "runMonteCarloSimulation", "runForwardTest"}
     => backtestResults' = backtestResults]_vars

\* ---------------------------------------------------------------------------
\* Content script v6.0 (src/IMPLEMENTATION.md 343-1330): the vote decision of
\* analyzeIndicators and generateSignal.  The tallies the fifteen indicators,
\* the patterns, the levels and the trend leave are inputs.
\* ---------------------------------------------------------------------------

\* MAX_HISTORY of the v6 script
V6_MAX_HISTORY == 100

\* what the voting part of analyzeIndicators hands to the decision; present is
\* false where rsi, macd, bb, adx or atr is missing
Votes(buy, sell, total, adx, volatility) ==
  [present |-> TRUE, buyVotes |-> buy, sellVotes |-> sell, totalWeight |-> total,
   adx |-> adx, volatility |-> volatility]

NoVotes ==
  [present |-> FALSE, buyVotes |-> Num(0, 1), sellVotes |-> Num(0, 1),
   totalWeight |-> Num(2, 1), adx |-> Num(0, 1), volatility |-> Num(0, 1)]

\* detectMarketRegime(closes, highs, lows)
detectMarketRegime(v) ==
  IF ~v.present THEN "TRENDING"
  ELSE IF RLt(Num(2, 100), v.volatility) THEN "VOLATILE"
  ELSE IF RLt(Num(25, 1), v.adx) THEN "TRENDING"
  ELSE IF RLt(v.adx, Num(20, 1)) THEN "RANGING"
  ELSE "TRENDING"

\* regimeBoost
regimeBoost(regime) ==
  CASE regime = "TRENDING" -> 15
    [] regime = "RANGING"  -> 20
    [] regime = "VOLATILE" -> -10
    [] OTHER               -> 0

\* adxMultiplier
adxMultiplier(adx) ==
  IF RLt(Num(25, 1), adx)
  THEN RAdd(Num(1, 1), RDiv(RAdd(adx, Num(-25, 1)), Num(100, 1)))
  ELSE Num(1, 1)

\* Math.min(95, Math.round((votes / totalWeight) * 100 * adxMultiplier + regimeBoost))
FinalConfidence(votes, v, regime) ==
  MathMin(Num(95, 1),
          MathRound(RAdd(RMul(RMul(RDiv(votes, v.totalWeight), Num(100, 1)),
                              adxMultiplier(v.adx)),
                         Num(regimeBoost(regime), 1))))

\* a threshold of 30, as the v7 script has it
MeetsThresholdOf30(confidence) == RLe(Num(30, 1), confidence)

\* finalBuyConfidence >= 35
MeetsThreshold(confidence) == RLe(Num(35, 1), confidence)

\* duration
DurationV6(v) ==
  IF RLt(Num(30, 1), v.adx) THEN 5
  ELSE IF RLt(Num(15, 1000), v.volatility) THEN 2
  ELSE 3

NullAnalysisV6 ==
  [present |-> FALSE, action |-> "null", confidence |-> Num(0, 1), duration |-> 0,
   volatility |-> Num(0, 1), adxStrength |-> Num(0, 1), regime |-> "null",
   isFallback |-> FALSE]

\* analyzeIndicators() of the v6 script from the tallies on
analyzeIndicatorsV6(v0, warm) ==
  CHOOSE r \in {
    IF ~warm \/ ~v.present
    THEN NullAnalysisV6
    ELSE IF RLt(v.sellVotes, v.buyVotes)
            /\ MeetsThreshold(FinalConfidence(v.buyVotes, v, detectMarketRegime(v)))
    THEN [present |-> TRUE, action |-> "BUY",
          confidence |-> FinalConfidence(v.buyVotes, v, detectMarketRegime(v)),
          duration |-> DurationV6(v), volatility |-> v.volatility,
          adxStrength |-> v.adx, regime |-> detectMarketRegime(v),
          isFallback |-> FALSE]
    ELSE IF RLt(v.buyVotes, v.sellVotes)
            /\ MeetsThreshold(FinalConfidence(v.sellVotes, v, detectMarketRegime(v)))
    THEN [present |-> TRUE, action |-> "SELL",
          confidence |-> FinalConfidence(v.sellVotes, v, detectMarketRegime(v)),
          duration |-> DurationV6(v), volatility |-> v.volatility,
          adxStrength |-> v.adx, regime |-> detectMarketRegime(v),
          isFallback |-> FALSE]
    ELSE NullAnalysisV6
    : v \in {v0} } : TRUE

\* the signal object of the v6 generateSignal, without its reasons, its wr and
\* the indicator values kept for learning
SignalObjectV6(a, price, id) ==
  [action |-> a.action, confidence |-> a.confidence, duration |-> a.duration,
   expiry |-> a.duration * 60, price |-> price, timestamp |-> id,
   volatility |-> a.volatility, adxStrength |-> a.adxStrength, regime |-> a.regime,
   isFallback |-> FALSE, entryPrice |-> price, result |-> "null"]

\* saveSettings() of the v6 script: PS_STATS
saveSettingsV6(st, total, wins, losses) ==
  IF SetItemThrows(st) THEN st
  ELSE [st EXCEPT !.hasStats = TRUE, !.total = total, !.wins = wins, !.losses = losses]

\* signalHistory.unshift(signal) and the cut to MAX_HISTORY
UnshiftSignalV6(h, id) ==
  IF Len(h) + 1 > V6_MAX_HISTORY THEN SubSeq(<<id>> \o h, 1, V6_MAX_HISTORY) ELSE <<id>> \o h

MaxV6Generate == 2

\* of a total weight of 10: a tie at 0, and tallies that a VOLATILE market
\* brings to 30, to 35 and to 90
V6VoteLevels == {Num(0, 1), Num(4, 1), Num(9, 2), Num(10, 1)}

V6Tallies ==
  {NoVotes} \cup
  { Votes(b, s, Num(10, 1), adx, vol) :
      b \in V6VoteLevels, s \in V6VoteLevels,
      adx \in {Num(15, 1), Num(22, 1), Num(45, 1)},
      vol \in {Num(1, 100), Num(3, 100)} }

\* the v6 page one candle before its warmup ends
V6Init ==
  /\ market = BoostMarket
  /\ feed = <<>>
  /\ EnginesInit
  /\ candles = WARMUP_CANDLES - 1
  /\ lastPrice = 100
  /\ warmupComplete = FALSE
  /\ initPc = "idle"
  /\ aiEngineReady = FALSE
  /\ rlEngineReady = FALSE
  /\ hmmEngineReady = FALSE
  /\ currentRegime = "TRENDING"
  /\ signals = <<>>
  /\ timers = <<>>
  /\ lastSignal = 0
  /\ signalHistory = <<>>
  /\ totalSignals = 0
  /\ winningSignals = 0
  /\ losingSignals = 0
  /\ genCalls = 0
  /\ stored = EmptyStorage
  /\ lastCall = NoCall
  /\ backtestResults = <<>>

\* pushTick(timestamp, price) of the v6 script opening a new candle
V6PushTick(price) ==
  /\ candles < WARMUP_CANDLES
  /\ lastPrice' = price
  /\ candles' = candles + 1
  /\ warmupComplete' = (warmupComplete \/ candles + 1 >= WARMUP_CANDLES)
  /\ UNCHANGED <<envVars, hmmVars, aiVars, rlVars, initPc, aiEngineReady,
                 rlEngineReady, hmmEngineReady, currentRegime, signals, timers,
                 lastSignal, signalHistory, totalSignals, winningSignals,
                 losingSignals, genCalls, stored, lastCall, backtestResults>>

\* generateSignal() of the v6 script, v being the tallies analyzeIndicators
\* reaches; scheduleSignalResultCheck and publishToAutoTrader are part of it
V6GenerateSignal(v) ==
  /\ genCalls < MaxV6Generate
  /\ genCalls' = genCalls + 1
  /\ \E a \in {analyzeIndicatorsV6(v, warmupComplete)} :
       /\ lastCall' = [op |-> "generateSignalV6", args |-> v, result |-> a,
                       threw |-> FALSE]
       /\ currentRegime' = IF warmupComplete THEN detectMarketRegime(v) ELSE currentRegime
       /\ IF ~warmupComplete \/ ~a.present \/ a.action = "null"
          THEN UNCHANGED <<signals, timers, lastSignal, signalHistory, totalSignals,
                           stored>>
          ELSE \E sig \in {SignalObjectV6(a, lastPrice, Len(signals) + 1)} :
                 /\ signals' = Append(signals, sig)
                 /\ lastSignal' = sig.timestamp
                 /\ totalSignals' = totalSignals + 1
                 /\ signalHistory' = UnshiftSignalV6(signalHistory, sig.timestamp)
                 /\ timers' = Append(timers, 1)
                 /\ stored' = publishToAutoTrader(
                                 saveSettingsV6(stored, totalSignals + 1, winningSignals,
                                                losingSignals), sig)
  /\ UNCHANGED <<envVars, hmmVars, aiVars, rlVars, candles, lastPrice, warmupComplete,
                 initPc, aiEngineReady, rlEngineReady, hmmEngineReady,
                 winningSignals, losingSignals, backtestResults>>

V6Next ==
  \/ \E price \in {100, 101} : V6PushTick(price)
  \/ \E v \in V6Tallies : V6GenerateSignal(v)

SpecV6 == V6Init /\ [][V6Next]_vars

At(arr, i) == IF i \in DOMAIN arr THEN arr[i] ELSE Undefined

\* randomMatrix(rows, cols): small random values; draw gives the two values,
\* in hundredths, that the entries take in turn
randomMatrix(rows, cols, draw) ==
  [i \in 1..rows |-> [j \in 1..cols |-> Num(IF (i + j) % 2 = 0 THEN draw[1] ELSE draw[2], 100)]]

\* new SimpleNN(inputSize, hiddenSize1, hiddenSize2, outputSize)
SimpleNN(inputSize, hiddenSize1, hiddenSize2, outputSize, draw) ==
  [w1 |-> randomMatrix(inputSize, hiddenSize1, draw),
   b1 |-> randomMatrix(1, hiddenSize1, draw)[1],
   w2 |-> randomMatrix(hiddenSize1, hiddenSize2, draw),
   b2 |-> randomMatrix(1, hiddenSize2, draw)[1],
   w3 |-> randomMatrix(hiddenSize2, outputSize, draw),
   b3 |-> randomMatrix(1, outputSize, draw)[1]]

\* relu(x): Math.max(0, x)
relu(x) == MathMax(Num(0, 1), x)

\* row.reduce((sum, val, i) => sum + val * vector[i], 0) over the first n
\* entries of the row
RECURSIVE Dot(_, _, _)
Dot(row, vector, n) ==
  IF n = 0 THEN Num(0, 1) ELSE JAdd(Dot(row, vector, n - 1), JMul(row[n], At(vector, n)))

\* matmul(matrix, vector): one entry for each row of the matrix
matmul(matrix, vector) ==
  [i \in DOMAIN matrix |-> Dot(matrix[i], vector, Len(matrix[i]))]

\* Math.exp: NaN for NaN; for a number at most 0 the value between 0 and 1
\* of 1 / (1 - x + x*x/2), which stands for e^x
MathExp(x0) ==
  CHOOSE r \in { IF IsNum(x)
                 THEN RDiv(Num(1, 1), RAdd(RAdd(Num(1, 1), RMul(Num(-1, 1), x)),
                                           RMul(Num(1, 2), RMul(x, x))))
                 ELSE NaN
                 : x \in {x0} } : TRUE

\* a / b
JDiv(a, b) ==
  CHOOSE r \in { IF IsNum(x) /\ IsNum(y) /\ y.n # 0 THEN RDiv(x, y) ELSE NaN
                 : x \in {a}, y \in {b} } : TRUE

RECURSIVE JSum(_)
JSum(arr) == IF Len(arr) = 0 THEN Num(0, 1) ELSE JAdd(JSum(SubSeq(arr, 1, Len(arr) - 1)), arr[Len(arr)])

\* softmax(arr)
softmax(arr0) ==
  CHOOSE r \in {
    [i \in DOMAIN exps |-> JDiv(exps[i], JSum(exps))]
    : exps \in { [i \in DOMAIN arr |->
                    MathExp(JAdd(arr[i], JMul(Num(-1, 1), MaxOf(arr))))] : arr \in {arr0} } } : TRUE

\* matmul(w, v).map((x, i) => relu(x + b[i]))
HiddenLayer(w, b, v) ==
  CHOOSE r \in { [i \in DOMAIN mv |-> relu(JAdd(mv[i], At(b, i)))] : mv \in {matmul(w, v)} } : TRUE

\* matmul(w3, h2).map((x, i) => x + b3[i])
OutputLayer(w, b, v) ==
  CHOOSE r \in { [i \in DOMAIN mv |-> JAdd(mv[i], At(b, i))] : mv \in {matmul(w, v)} } : TRUE

\* forward(input).output
forward(net, input) ==
  softmax(OutputLayer(net.w3, net.b3,
                      HiddenLayer(net.w2, net.b2, HiddenLayer(net.w1, net.b1, input))))

\* AIEngine.predict(indicators) with the model ready
predictWith(net, ind) ==
  CHOOSE r \in {
    [present    |-> TRUE,
     action     |-> IF JLt(At(p, 2), At(p, 1)) THEN "BUY" ELSE "SELL",
     buyProb    |-> At(p, 1),
     sellProb   |-> At(p, 2),
     confidence |-> JMul(MathMax(At(p, 1), At(p, 2)), Num(100, 1))]
    : p \in {forward(net, normalizeFeatures(ind))} } : TRUE

\* the values the constructor's Math.random() calls leave, in hundredths
NetworkDraws == {<<5, 5>>, <<5, -9>>, <<-9, 5>>, <<0, 3>>}

\* finite indicator values
PredictInputs ==
  [rsi : {Num(0, 1), Num(30, 1), Num(70, 1), Num(100, 1)},
   adx : {Num(10, 1), Num(30, 1), Num(60, 1)},
   atr : {Num(1, 1000), Num(1, 50)},
   williamsR : {Num(-100, 1), Num(-50, 1), Num(0, 1)},
   cci : {Num(-200, 1), Num(0, 1), Num(200, 1)}]

\* AIEngine.initialize() has run: the model is ready
PredictInit ==
  /\ market = BoostMarket
  /\ feed = <<>>
  /\ currentState = STATES.RANGING
  /\ stateHistory = <<>>
  /\ transitionMatrix = DefaultTransitionMatrix
  /\ regimeInfo = NoRegimeInfo
  /\ matrixUpdates = 0
  /\ isModelReady = TRUE
  /\ trainingData = <<>>
  /\ signalCount = 0
  /\ retrains = 0
  /\ qTable = InitialQTable
  /\ totalUpdates = 0
  /\ rewardHistory = <<>>
  /\ ScriptInit

\* AIEngine.predict(indicators), draw being the weights of its model
Predict(ind, draw) ==
  /\ lastCall = NoCall
  /\ lastCall' = [op |-> "predict", args |-> [indicators |-> ind, draw |-> draw],
                  result |-> predict(isModelReady,
                                     predictWith(SimpleNN(5, 16, 8, 2, draw), ind)),
                  threw |-> FALSE]
  /\ UNCHANGED <<envVars, hmmVars, aiVars, rlVars, csVars, backtestResults>>

PredictNext == \E ind \in PredictInputs, draw \in NetworkDraws : Predict(ind, draw)

SpecPredict == PredictInit /\ [][PredictNext]_vars

\* C28: for every finite 5-feature input predict answers with buyProb + sellProb
\* = 1 within 1e-6, with the action of the larger probability, and with
\* confidence = max(buyProb, sellProb) * 100 within 50..100
C28_PredictProbabilities ==
  (lastCall.op = "predict" /\ lastCall.result.present)
    => \E r \in {lastCall.result} :
         /\ IsNum(r.buyProb) /\ IsNum(r.sellProb)
         /\ RLe(Num(-1, 1000000), RAdd(RAdd(r.buyProb, r.sellProb), Num(-1, 1)))
         /\ RLe(RAdd(RAdd(r.buyProb, r.sellProb), Num(-1, 1)), Num(1, 1000000))
         /\ r.action = (IF RLt(r.sellProb, r.buyProb) THEN "BUY" ELSE "SELL")
         /\ r.confidence = RMul(IF RLt(r.buyProb, r.sellProb) THEN r.sellProb ELSE r.buyProb,
                                Num(100, 1))
         /\ RLe(Num(50, 1), r.confidence) /\ RLe(r.confidence, Num(100, 1))

\* the content script with its result callbacks firing in any order, and no
\* RESET_HISTORY message in between
CallbackNext ==
  \/ \E price \in Prices, isNew \in BOOLEAN : PushTick(price, isNew, TRUE)
  \/ FinishInitializeAIEngines
  \/ \E out \in MainPredictions, rnd \in MainDraws : GenerateSignal(out, rnd)
  \/ \E id \in 1..MaxGenerate : FireTimer(id)
  \/ \E id \in 1..MaxGenerate : CheckAgain(id)

SpecCallbacks == Init /\ [][CallbackNext]_vars

\* the signals that got the result r
WithResult(r) == { i \in DOMAIN signals : signals[i].result = r }

\* C29: the callbacks of the signals in flight may fire in any order; each
\* changes only the result of its own signal, and the win and loss counters,
\* the number of training samples and the number of reward events are
\* determined by the outcomes alone, whatever the order, while every Q-value
\* stays finite (at most 1 / (1 - 0.95) = 20 in size)
C29_OrderIndependent ==
  /\ [](/\ winningSignals = Cardinality(WithResult("WIN"))
        /\ losingSignals = Cardinality(WithResult("LOSS"))
        /\ Len(trainingData) = Cardinality(WithResult("WIN") \cup WithResult("LOSS"))
        /\ signalCount = Len(trainingData)
        /\ Len(rewardHistory) = Cardinality(WithResult("WIN") \cup WithResult("LOSS"))
        /\ totalUpdates = Len(rewardHistory)
        /\ \A g \in REGIMES, a \in ACTION_NAMES :
             qTable[g][a] \in (-20 * QSCALE)..(20 * QSCALE))
  /\ [][\A i \in DOMAIN signals :
          signals'[i] # signals[i]
            => /\ timers'[i] = timers[i] - 1
               /\ \A j \in DOMAIN signals \ {i} : signals'[j] = signals[j]
               /\ signals[i].result = "null"
               /\ signals'[i] = [signals[i] EXCEPT !.result = signals'[i].result]]_vars

\* the second signal has its result while the first is still in flight
C29_Witness ==
  /\ Len(signals) = 2
  /\ signals[1].result = "null"
  /\ timers[1] > 0
  /\ signals[2].result = "LOSS"
  /\ Len(rewardHistory) = 1
  /\ losingSignals = 1

\* observations that speak for VOLATILE and CHAOTIC as strongly as the
\* emission table allows: a high ATR ratio just below 0.03 with an ADX of 22,
\* the same with the ADX at 25, where TRENDING and RANGING both get their
\* lowest emission, and a very high ATR ratio with a low ADX
ObsVolatile == Obs(Num(22, 1), Num(29, 1000), Num(1, 1))

ObsEdge == Obs(Num(25, 1), Num(29, 1000), Num(1, 1))

ObsChaotic == Obs(Num(10, 1), Num(4, 100), Num(1, 1))

RegimeObservations == {ObsTrend, ObsRange, ObsVolatile, ObsEdge, ObsChaotic}

RegimeScripts ==
  { <<>>, <<ObsEdge>>, <<ObsChaotic>>, <<ObsTrend, ObsEdge>>, <<ObsVolatile, ObsRange>> }

RegimeInit ==
  /\ market \in RegimeObservations
  /\ feed \in RegimeScripts
  /\ EnginesInit
  /\ ScriptInit

\* HMMEngine.reset()
ResetRegime ==
  /\ stateHistory # <<>>
  /\ currentState' = STATES.RANGING
  /\ stateHistory' = <<>>
  /\ UNCHANGED <<transitionMatrix, regimeInfo, matrixUpdates, envVars, aiVars, rlVars,
                 csVars, lastCall, backtestResults>>

RegimeNext == Observe \/ DetectRegime \/ UpdateTransitionMatrix \/ ResetRegime

SpecRegime == RegimeInit /\ [][RegimeNext]_vars

\* C30: from the initial state (RANGING, the default matrix), whatever is
\* observed and however detectRegime, updateTransitionMatrix and reset are
\* interleaved, the current state is TRENDING or RANGING, no history entry is
\* VOLATILE or CHAOTIC, and the VOLATILE and CHAOTIC rows of the matrix are
\* the default ones
C30_TwoRegimesOnly ==
  /\ currentState \in {STATES.TRENDING, STATES.RANGING}
  /\ \A i \in DOMAIN stateHistory :
       stateHistory[i].state \in {STATES.TRENDING, STATES.RANGING}
  /\ transitionMatrix[STATES.VOLATILE] = DefaultTransitionMatrix[STATES.VOLATILE]
  /\ transitionMatrix[STATES.CHAOTIC] = DefaultTransitionMatrix[STATES.CHAOTIC]

\* after a blend and a reset, the strongest VOLATILE observation is classified
C30_Witness ==
  /\ matrixUpdates = 1
  /\ transitionMatrix # DefaultTransitionMatrix
  /\ Len(stateHistory) = 1
  /\ market = ObsEdge
  /\ RLt(Num(4, 10), stateHistory[1].probs[STATES.VOLATILE])

----------------------------------------------------------------------------
(* C31: RESET_HISTORY and the callbacks in flight                           *)

\* the signals that have their result
ResolvedCount == Cardinality({i \in DOMAIN signals : signals[i].result # "null"})

\* RESET_HISTORY has been handled since the first signal: the counter of
\* generated signals is behind the number of signal objects created
ResetSinceFirstSignal == totalSignals < Len(signals)

\* C31: RESET_HISTORY cancels no pending callback and touches no signal; a
\* signal in flight at the reset resolves afterwards, raises the win or the
\* loss counter and feeds the reset training buffer and Q-table; and while no
\* reset has been handled since the first signal, wins + losses never exceed
\* totalSignals
C31_ResetKeepsCallbacks ==
  /\ [](~ResetSinceFirstSignal => winningSignals + losingSignals <= totalSignals)
  /\ [][totalSignals' < totalSignals
          => /\ timers' = timers
             /\ signals' = signals
             /\ winningSignals' = 0 /\ losingSignals' = 0
             /\ aiEngineReady => trainingData' = <<>> /\ signalCount' = 0
             /\ rlEngineReady => qTable' = InitialQTable /\ totalUpdates' = 0]_vars
  /\ [][(ResetSinceFirstSignal /\ ResolvedCount' # ResolvedCount)
          => /\ winningSignals' + losingSignals' = winningSignals + losingSignals + 1
             /\ totalSignals' = totalSignals
             /\ aiEngineReady => /\ signalCount' = signalCount + 1
                                 /\ Len(trainingData') = Len(trainingData) + 1
             /\ rlEngineReady => /\ totalUpdates' = totalUpdates + 1
                                 /\ Len(rewardHistory') = Len(rewardHistory) + 1]_vars

\* after a reset with callbacks pending: more outcomes counted than signals,
\* all of them fed to the reset buffer and Q-table
C31_Witness ==
  /\ winningSignals + losingSignals > totalSignals
  /\ aiEngineReady /\ rlEngineReady
  /\ signalCount = winningSignals + losingSignals
  /\ Len(trainingData) = signalCount
  /\ totalUpdates = signalCount
  /\ qTable # InitialQTable

----------------------------------------------------------------------------
(* C32: the predictor's answer and the policy's override (SpecDecision)     *)

\* the regime names the fusion can hold, and one the Q-table does not know
DecisionRegimes == REGIMES \cup {"UNKNOWN"}

DecisionInit ==
  /\ market = BoostMarket
  /\ feed = <<>>
  /\ currentState = STATES.RANGING
  /\ stateHistory = <<>>
  /\ transitionMatrix = DefaultTransitionMatrix
  /\ regimeInfo = NoRegimeInfo
  /\ matrixUpdates = 0
  /\ isModelReady = TRUE
  /\ trainingData = <<>>
  /\ signalCount = 0
  /\ retrains = 0
  /\ qTable \in FusionQTables
  /\ totalUpdates = 0
  /\ rewardHistory = <<>>
  /\ ScriptStateInit
  /\ lastCall = NoCall
  /\ backtestResults = <<>>

\* analyzeIndicators() from "Determine action" on, with the predictor and the
\* policy ready: the base decision for the predictor's answer and the analysis
\* built on it
Decide(regime, aiPrediction, rnd) ==
  /\ lastCall = NoCall
  /\ UNCHANGED backtestResults
  /\ \E base \in {BaseDecision(market, regime, qTable, aiPrediction, TRUE, rnd)} :
       lastCall' = [op     |-> "determineAction",
                    args   |-> [regime |-> regime, aiPrediction |-> aiPrediction,
                                rnd |-> rnd],
                    result |-> [base |-> base,
                                analysis |-> Analysis(market, regime, base, rnd)],
                    threw  |-> FALSE]
  /\ UNCHANGED <<envVars, hmmVars, aiVars, rlVars, csVars>>

DecisionNext ==
  \E regime \in DecisionRegimes, out \in FusionPredictions, rnd \in FusionDraws :
    Decide(regime, out, rnd)

SpecDecision == DecisionInit /\ [][DecisionNext]_vars

\* what selectAction answered in the recorded run
PolicyAction ==
  selectAction(qTable, lastCall.args.regime, lastCall.args.aiPrediction.action,
               lastCall.args.rnd.explore, lastCall.args.rnd.coin)

\* the policy overrode the predictor in the recorded run
Overridden ==
  /\ lastCall.op = "determineAction"
  /\ PolicyAction # lastCall.args.aiPrediction.action

\* C32: with the predictor and the policy ready, the final action is the one
\* selectAction returned; when it differs from the predictor's, the base
\* confidence is 60 whatever the predictor's confidence was, otherwise the
\* predictor's; confidenceAdjustment(regime, rlAction) is added in both cases
C32_OverrideResetsTo60 ==
  lastCall.op = "determineAction"
    => \E adj \in {Num(getConfidenceAdjustment(qTable, lastCall.args.regime,
                                               PolicyAction), 1)} :
         /\ lastCall.result.base.action = PolicyAction
         /\ lastCall.result.analysis.action = PolicyAction
         /\ lastCall.result.base.confidence =
              IF Overridden THEN RAdd(Num(60, 1), adj)
              ELSE JAdd(lastCall.args.aiPrediction.confidence, adj)

\* the policy overrode a predictor that was fully confident and its own
\* preference added 5 to the 60
C32_Witness ==
  /\ Overridden
  /\ lastCall.args.aiPrediction.confidence = Num(100, 1)
  /\ lastCall.result.base.confidence = Num(65, 1)

\* no override, and the adjustment was added to the predictor's confidence
AdjustedWithoutOverride ==
  /\ lastCall.op = "determineAction"
  /\ ~Overridden
  /\ lastCall.result.base.confidence = Num(877, 10)

----------------------------------------------------------------------------
(* C33: what changes the transition matrix                                  *)

\* 0.9 * old + 0.1 * (transitions i -> j / transitions out of i)
EmaOfRow(hist, tm, i) ==
  [j \in 1..4 |->
    RAdd(RMul(Num(9, 10), tm[i][j]),
         RMul(Num(1, 10), Num(TransitionCount(hist, i, j), RowSum(hist, i))))]

\* C33: the transition matrix changes only in an updateTransitionMatrix step,
\* which leaves the state and the history alone and needs a history of at
\* least 20 entries; detectRegime and reset leave the matrix unchanged; the
\* update leaves a row without observed outgoing transitions unchanged and
\* sets every other row to 0.9 * old + 0.1 * observed frequencies
C33_MatrixFrame ==
  /\ [][transitionMatrix' # transitionMatrix
          => /\ Len(stateHistory) >= MIN_HISTORY_FOR_UPDATE
             /\ stateHistory' = stateHistory
             /\ currentState' = currentState]_vars
  /\ [][(stateHistory' # stateHistory \/ currentState' # currentState)
          => transitionMatrix' = transitionMatrix]_vars
  /\ [][matrixUpdates' # matrixUpdates
          => \A i \in 1..4 :
               transitionMatrix'[i] =
                 IF RowSum(stateHistory, i) = 0 THEN transitionMatrix[i]
                 ELSE EmaOfRow(stateHistory, transitionMatrix, i)]_vars

\* a blend that moved the RANGING row and left the TRENDING row, which had no
\* outgoing transition in the history, as it was; the history was reset since
C33_Witness ==
  /\ matrixUpdates = 1
  /\ transitionMatrix[STATES.RANGING] # DefaultTransitionMatrix[STATES.RANGING]
  /\ transitionMatrix[STATES.TRENDING] = DefaultTransitionMatrix[STATES.TRENDING]
  /\ Len(stateHistory) = 1

----------------------------------------------------------------------------
(* C34: the predictor at the start of a session                             *)

\* C34 as stated: AIEngine.initialize() of a session leaves a fresh, untrained
\* model ready, the persisted sample buffer and counter loaded, and, when that
\* buffer holds at least 20 samples, the model retrained from it
C34_RetrainedAtStart ==
  lastCall.op = "initialize"
    => /\ isModelReady
       /\ trainingData = stored.trainingData
       /\ signalCount = stored.signalCount
       /\ Len(trainingData) >= MIN_TRAINING_DATA => retrains >= 1

----------------------------------------------------------------------------
(* C35: the predictor's buffer and counter through initialize,              *)
(* addTrainingSample and reset (SpecSamples)                                *)

MaxSamples == 501

MaxRetrains == 11

\* the counter values at which the page calls initialize and reset and at
\* which localStorage may start to fail
CallPoints == {0, 30, 500}

SamplesInit ==
  /\ market = ObsRange
  /\ feed = <<>>
  /\ EnginesInit
  /\ ScriptStateInit
  /\ lastCall = NoCall
  /\ backtestResults = <<>>

\* AIEngine.initialize()
AIInitialize ==
  /\ lastCall.op # "initialize"
  /\ signalCount \in CallPoints
  /\ isModelReady' = TRUE
  /\ \E l \in {loadTrainingData(stored, trainingData, signalCount)} :
       /\ trainingData' = l.trainingData
       /\ signalCount' = l.signalCount
  /\ lastCall' = [op |-> "initialize", args |-> [none |-> TRUE], result |-> NoTraining,
                  threw |-> FALSE]
  /\ UNCHANGED <<envVars, hmmVars, retrains, rlVars, csVars, backtestResults>>

\* AIEngine.addTrainingSample(indicators, action, wasWin)
AIAddSample(action, wasWin) ==
  /\ signalCount < MaxSamples
  /\ retrains < MaxRetrains
  /\ \E ai \in {addTrainingSample(RingIndicators(market), action, wasWin,
                                  trainingData, signalCount, isModelReady, retrains)} :
       /\ trainingData' = ai.trainingData
       /\ signalCount' = ai.signalCount
       /\ retrains' = ai.retrains
       /\ stored' = saveTrainingData(stored, ai.trainingData, ai.signalCount)
       /\ lastCall' = [op     |-> "addTrainingSample",
                       args   |-> [action |-> action, wasWin |-> wasWin],
                       result |-> ai.training,
                       threw  |-> FALSE]
  /\ UNCHANGED <<envVars, hmmVars, isModelReady, rlVars, candles, lastPrice,
                 warmupComplete, initPc, aiEngineReady, rlEngineReady, hmmEngineReady,
                 currentRegime, signals, timers, lastSignal, signalHistory,
                 totalSignals, winningSignals, losingSignals, genCalls,
                 backtestResults>>

\* AIEngine.reset()
AIReset ==
  /\ lastCall.op # "reset"
  /\ signalCount \in CallPoints
  /\ trainingData' = <<>>
  /\ signalCount' = 0
  /\ stored' = saveTrainingData(stored, <<>>, 0)
  /\ lastCall' = [op |-> "reset", args |-> [none |-> TRUE], result |-> NoTraining,
                  threw |-> FALSE]
  /\ UNCHANGED <<envVars, hmmVars, isModelReady, retrains, rlVars, candles, lastPrice,
                 warmupComplete, initPc, aiEngineReady, rlEngineReady, hmmEngineReady,
                 currentRegime, signals, timers, lastSignal, signalHistory,
                 totalSignals, winningSignals, losingSignals, genCalls,
                 backtestResults>>

\* localStorage runs out of room, or the page loses access to it: from now on
\* setItem throws, and getItem too when access is denied
StorageFails(mode) ==
  /\ stored.state = "ok"
  /\ signalCount \in CallPoints
  /\ stored' = [stored EXCEPT !.state = mode]
  /\ UNCHANGED <<envVars, hmmVars, aiVars, rlVars, candles, lastPrice,
                 warmupComplete, initPc, aiEngineReady, rlEngineReady, hmmEngineReady,
                 currentRegime, signals, timers, lastSignal, signalHistory,
                 totalSignals, winningSignals, losingSignals, genCalls, lastCall,
                 backtestResults>>

SamplesNext ==
  \/ AIInitialize
  \/ AIAddSample("BUY", TRUE)
  \/ AIReset
  \/ \E mode \in {"full", "denied"} : StorageFails(mode)

SpecSamples == SamplesInit /\ [][SamplesNext]_vars

\* the buffer holds min(counter, 500) samples, in memory and in storage
BufferTracksCounter ==
  /\ Len(trainingData) = IF signalCount < MAX_TRAINING_DATA THEN signalCount
                         ELSE MAX_TRAINING_DATA
  /\ Len(stored.trainingData) = IF stored.signalCount < MAX_TRAINING_DATA
                                THEN stored.signalCount ELSE MAX_TRAINING_DATA

\* C35: the buffer holds min(counter, 500) samples in every state, in memory
\* and in what the engine wrote to storage; so after an addTrainingSample
\* that takes the counter to a multiple of 50 the buffer holds at least 20
\* samples, and the retraining runs whenever the model is ready
C35_BufferTracksCounter ==
  /\ [][BufferTracksCounter /\ BufferTracksCounter']_vars
  /\ [][(lastCall'.op = "addTrainingSample" /\ signalCount' = signalCount + 1
         /\ signalCount' % RETRAIN_INTERVAL = 0)
          => /\ Len(trainingData') >= MIN_TRAINING_DATA
             /\ isModelReady => lastCall'.result.ran]_vars

\* the counter has passed the capacity and the 500th sample triggered the
\* tenth retraining
C35_Witness ==
  /\ signalCount = 501
  /\ Len(trainingData) = 500
  /\ retrains = 10

\* samples that a failed save of reset() left in storage were read back
ReadBackAfterReset ==
  /\ lastCall.op = "initialize"
  /\ stored.state = "full"
  /\ signalCount = 30
  /\ Len(trainingData) = 30

----------------------------------------------------------------------------
(* C36: what a backtest owes to the order of its signals                    *)

\* every entry carries the result WIN or LOSS
AllResolved(sigs) ==
  /\ ~NoSignals(sigs)
  /\ \A i \in DOMAIN sigs.list : sigs.list[i].result \in {"WIN", "LOSS"}

\* the figures of a backtest that the claim holds to be independent of order
OrderFreeFigures(r) ==
  [wins |-> r.wins, losses |-> r.losses, winRate |-> r.winRate,
   netProfit |-> r.netProfit, roi |-> r.roi, profitFactor |-> r.profitFactor]

\* C36: for a list whose entries are all WIN or LOSS, wins, losses, winRate,
\* netProfit, roi and profitFactor of runBacktest are the same for every
\* arrangement of the list; and in runMonteCarloSimulation, for every
\* iterations >= 1, min and max of winRate, roi and profitFactor coincide and
\* profitablePercent is 0 or 100
C36_OrderInvariance ==
  /\ (lastCall.op = "runBacktest" /\ AllResolved(lastCall.args.signals))
       => \A shuffled \in Shuffles(lastCall.args.signals.list) :
            OrderFreeFigures(runBacktest(List(shuffled), <<>>).results)
              = OrderFreeFigures(lastCall.result)
  /\ (lastCall.op = "runMonteCarloSimulation" /\ AllResolved(lastCall.args.signals))
       => /\ lastCall.result.winRate.min = lastCall.result.winRate.max
          /\ lastCall.result.roi.min = lastCall.result.roi.max
          /\ lastCall.result.profitFactor.min = lastCall.result.profitFactor.max
          /\ lastCall.result.profitablePercent \in {Num(0, 1), Num(100, 1)}

\* two iterations over different arrangements of wins and losses: the maximum
\* drawdowns differ, the other figures do not
C36_Witness ==
  /\ lastCall.op = "runMonteCarloSimulation"
  /\ AllResolved(lastCall.args.signals)
  /\ lastCall.args.iterations = 2
  /\ lastCall.args.shuffles[1] # lastCall.args.shuffles[2]
  /\ lastCall.result.maxDrawdown.min # lastCall.result.maxDrawdown.max
  /\ lastCall.result.roi.min = lastCall.result.roi.max
  /\ lastCall.result.profitablePercent = Num(100, 1)

----------------------------------------------------------------------------
(* C37: long runs of updates with rewards +1 and -1 (SpecSchedule)          *)

MaxScheduledUpdates == 3000

Update(regime, action, reward, nextRegime) ==
  [regime |-> regime, action |-> action, reward |-> reward, nextRegime |-> nextRegime]

\* the updates a caller repeats in a cycle: one action always rewarded; both
\* actions of a regime always punished; a rewarded regime, a regime that looks
\* ahead to it, and a regime punished on both actions; wins and losses mixed
Schedules ==
  { << Update("RANGING", "BUY", 1, "RANGING") >>,
    << Update("CHAOTIC", "BUY", -1, "CHAOTIC"), Update("CHAOTIC", "SELL", -1, "CHAOTIC") >>,
    << Update("RANGING", "BUY", 1, "RANGING"), Update("TRENDING", "SELL", 1, "RANGING"),
       Update("CHAOTIC", "BUY", -1, "CHAOTIC"), Update("CHAOTIC", "SELL", -1, "CHAOTIC") >>,
    << Update("VOLATILE", "BUY", 1, "TRENDING"), Update("VOLATILE", "BUY", -1, "VOLATILE"),
       Update("VOLATILE", "SELL", -1, "RANGING") >> }

ScheduleInit ==
  /\ market = MarketCalm
  /\ feed = <<>>
  /\ EnginesInit
  /\ ScriptStateInit
  /\ \E s \in Schedules :
       lastCall = [op |-> "schedule", args |-> s, result |-> "undefined", threw |-> FALSE]
  /\ backtestResults = <<>>

\* RLEngine.updateQValue for the next update of the cycle
ScheduledUpdate ==
  /\ totalUpdates < MaxScheduledUpdates
  /\ \E u \in {lastCall.args[(totalUpdates % Len(lastCall.args)) + 1]} :
     \E rl \in {updateQValue(qTable, totalUpdates, rewardHistory, u.regime, u.action,
                             u.reward, u.nextRegime)} :
       /\ qTable' = rl.qTable
       /\ totalUpdates' = rl.totalUpdates
       /\ rewardHistory' = rl.rewardHistory
       /\ stored' = saveQTable(stored, rl.qTable)
  /\ UNCHANGED <<envVars, hmmVars, aiVars, candles, lastPrice, warmupComplete,
                 initPc, aiEngineReady, rlEngineReady, hmmEngineReady, currentRegime,
                 signals, timers, lastSignal, signalHistory, totalSignals,
                 winningSignals, losingSignals, genCalls, lastCall, backtestResults>>

ScheduleNext == ScheduledUpdate

SpecSchedule == ScheduleInit /\ [][ScheduleNext]_vars

\* C37: from the initial Q-table and with rewards +1 and -1 only, every
\* Q-value stays within [-10, 10]
C37_QWithinTen ==
  \A r \in REGIMES, a \in ACTION_NAMES :
    /\ qTable[r][a] >= -10 * QSCALE
    /\ qTable[r][a] <= 10 * QSCALE

\* both ends approached in one run: a value above 9.9 and one below -9.9
C37_Witness ==
  /\ qTable.RANGING.BUY > 99 * (QSCALE \div 10)
  /\ qTable.CHAOTIC.SELL < -99 * (QSCALE \div 10)

----------------------------------------------------------------------------
(* C38: a callback that finds the price where the signal entered            *)

\* the label addTrainingSample gives a lost signal: the other action
LossLabel(action) == IF action = "BUY" THEN <<0, 1>> ELSE <<1, 0>>

\* C38: a signal wins only if the price moved its way, strictly: a BUY when the
\* price is above the entry price, a SELL when it is below; a callback that
\* finds the price equal to the entry price resolves the signal to LOSS, counts
\* a loss, and hands the predictor a lost sample and the policy the reward -1
C38_TieIsLoss ==
  [][\A id \in DOMAIN signals :
       (signals[id].result = "null" /\ signals'[id].result # "null")
         => /\ signals'[id].result = "WIN"
                <=> \/ signals[id].action = "BUY" /\ lastPrice > signals[id].entryPrice
                    \/ signals[id].action = "SELL" /\ lastPrice < signals[id].entryPrice
            /\ lastPrice = signals[id].entryPrice
                 => /\ signals'[id].result = "LOSS"
                    /\ losingSignals' = losingSignals + 1
                    /\ winningSignals' = winningSignals
                    /\ aiEngineReady
                         => trainingData'[Len(trainingData')].label
                              = LossLabel(signals[id].action)
                    /\ rlEngineReady
                         => /\ rewardHistory'[Len(rewardHistory')].reward = -1
                            /\ rewardHistory'[Len(rewardHistory')].action
                                 = signals[id].action]_vars

\* a BUY entered at the lowest price and a SELL entered at the highest price
\* have both lost: each was resolved at its entry price
C38_Witness ==
  \E i, j \in DOMAIN signals :
    /\ signals[i].action = "BUY" /\ signals[i].entryPrice = 1
    /\ signals[i].result = "LOSS"
    /\ signals[j].action = "SELL" /\ signals[j].entryPrice = 2
    /\ signals[j].result = "LOSS"
    /\ losingSignals = 2
    /\ Len(rewardHistory) = 2
    /\ Len(trainingData) = 2

----------------------------------------------------------------------------
(* C39: the policy's choice between equal Q-values (SpecPolicy)             *)

\* a Q-table with one value everywhere
EvenQ(v) == [r \in REGIMES |-> [a \in ACTION_NAMES |-> v]]

\* the initial table; BUY ahead by 0.189, by exactly 0.1 and by 0.05, and
\* behind by 0.105, in RANGING and TRENDING; and all values equal at 0.7
PolicyTables ==
  {InitialQTable, LearnedQ(689050), LearnedQ(600000), LearnedQ(550000),
   LearnedQ(395000), EvenQ(700000)}

PolicyInit ==
  /\ market = MarketCalm
  /\ feed = <<>>
  /\ currentState = STATES.RANGING
  /\ stateHistory = <<>>
  /\ transitionMatrix = DefaultTransitionMatrix
  /\ regimeInfo = NoRegimeInfo
  /\ matrixUpdates = 0
  /\ isModelReady = FALSE
  /\ trainingData = <<>>
  /\ signalCount = 0
  /\ retrains = 0
  /\ qTable \in PolicyTables
  /\ totalUpdates = 0
  /\ rewardHistory = <<>>
  /\ ScriptInit

PolicyNext ==
  \E regime \in REGIMES \cup {"SIDEWAYS"}, aiAction \in PredictorActions,
     explore \in BOOLEAN, coin \in ACTION_NAMES :
    SelectAction(regime, aiAction, explore, coin)

SpecPolicy == PolicyInit /\ [][PolicyNext]_vars

\* selectAction reached its last line: it did not explore, the regime is in
\* the table, and no predictor action was supplied or the Q-values differ by
\* at least 0.1
DecidedByQTable ==
  /\ lastCall.op = "selectAction"
  /\ ~lastCall.args.explore
  /\ lastCall.args.regime \in DOMAIN qTable
  /\ \/ lastCall.args.aiAction = "null"
     \/ 10 * Abs(qTable[lastCall.args.regime].BUY - qTable[lastCall.args.regime].SELL)
          >= QSCALE

\* C39: when selectAction does not explore and no predictor action is supplied
\* or the Q-values differ by at least 0.1, it returns BUY exactly when
\* Q[regime][BUY] is strictly greater than Q[regime][SELL], and SELL otherwise,
\* equal values included; with the initial Q-table the policy alone answers
\* SELL for every regime
C39_TieGivesSell ==
  /\ DecidedByQTable
       => /\ lastCall.result = "BUY"
               <=> qTable[lastCall.args.regime].BUY > qTable[lastCall.args.regime].SELL
          /\ lastCall.result \in ACTION_NAMES
  /\ (/\ lastCall.op = "selectAction"
      /\ ~lastCall.args.explore
      /\ lastCall.args.aiAction = "null"
      /\ lastCall.args.regime \in REGIMES
      /\ qTable = InitialQTable)
       => lastCall.result = "SELL"

\* the policy alone, asked with the initial table while the coin would have
\* said BUY, answers SELL
C39_Witness ==
  /\ DecidedByQTable
  /\ qTable = InitialQTable
  /\ lastCall.args = [regime |-> "VOLATILE", aiAction |-> "null", explore |-> FALSE,
                      coin |-> "BUY"]
  /\ lastCall.result = "SELL"

----------------------------------------------------------------------------
(* C40: the period of updateTransitionMatrix (SpecPeriod)                   *)
(* Twenty-one signals generated one after the other; the callbacks of the   *)
(* last three may fire at any point after their signal, and RESET_HISTORY   *)
(* may arrive at any point                                                  *)

MaxPeriodGenerate == 21

\* the signals whose callbacks fire within the run
WatchedSignals == {19, 20, 21}

\* after the warmup, initializeAIEngines finished, the predictor not ready
PeriodInit ==
  /\ market = BoostMarket
  /\ feed = <<>>
  /\ EnginesInit
  /\ candles = WARMUP_CANDLES
  /\ lastPrice = 1
  /\ warmupComplete = TRUE
  /\ initPc = "done"
  /\ aiEngineReady = FALSE
  /\ rlEngineReady = TRUE
  /\ hmmEngineReady = TRUE
  /\ currentRegime = "RANGING"
  /\ signals = <<>>
  /\ timers = <<>>
  /\ lastSignal = 0
  /\ signalHistory = <<>>
  /\ totalSignals = 0
  /\ winningSignals = 0
  /\ losingSignals = 0
  /\ genCalls = 0
  /\ stored = EmptyStorage
  /\ lastCall = NoCall
  /\ backtestResults = <<>>

\* the scheduler calling generateSignal
PeriodGenerate ==
  /\ genCalls < MaxPeriodGenerate
  /\ generateSignal(NoPrediction, Draw(FALSE, "BUY", 0, 1))
  /\ UNCHANGED <<lastCall, backtestResults>>

PeriodNext ==
  \/ PeriodGenerate
  \/ \E id \in WatchedSignals : FireTimer(id)
  \/ ResetHistory

SpecPeriod == PeriodInit /\ [][PeriodNext]_vars

\* a callback gives a signal its result in this step
Resolves == \E id \in DOMAIN signals : signals[id].result = "null" /\ signals'[id].result # "null"

\* C40: a resolve callback calls updateTransitionMatrix exactly when
\* totalSignals, the number of signals generated, is a multiple of 20 as the
\* callback runs: every callback that runs while totalSignals stays at the
\* same multiple blends the matrix once more (given the 20 history entries
\* updateTransitionMatrix needs), a callback at any other count leaves the
\* matrix alone, and no other step touches it
C40_PeriodOnGenerated ==
  /\ [][Resolves
          => /\ transitionMatrix' =
                  IF totalSignals % 20 = 0
                  THEN updateTransitionMatrix(stateHistory, transitionMatrix)
                  ELSE transitionMatrix
             /\ matrixUpdates' =
                  IF totalSignals % 20 = 0 /\ Len(stateHistory) >= 20
                  THEN matrixUpdates + 1 ELSE matrixUpdates]_vars
  /\ [][~Resolves => (transitionMatrix' = transitionMatrix
                      /\ matrixUpdates' = matrixUpdates)]_vars

\* three callbacks ran while totalSignals stood at 20, none of them the
\* twentieth resolution, and each blended the matrix
C40_Witness ==
  /\ totalSignals = 20
  /\ winningSignals + losingSignals = 3
  /\ matrixUpdates = 3

\* the twenty-first signal was generated before any callback ran: the callbacks
\* found totalSignals at 21 and the matrix was never blended
UnobservedMultiple ==
  /\ totalSignals = 21
  /\ winningSignals + losingSignals = 3
  /\ matrixUpdates = 0
  /\ transitionMatrix = DefaultTransitionMatrix

====
